---- MODULE Spec2Model ----
(***************************************************************************)
(* Constant folding of calls to built-in functions                         *)
(* (gcc/fold-const-call.cc).                                                *)
(*                                                                         *)
(* One fold is one step: the state before it holds the call (function      *)
(* identifier, result format or type, constant operands) and the numeric   *)
(* safety flags; the step runs the handler the routing layer selects and   *)
(* leaves the outcome, the backend invocation it made and the backend's    *)
(* exception flags.                                                        *)
(*                                                                         *)
(* Floating-point values are GCC's REAL_VALUE_TYPE scaled down: a class, a *)
(* sign, a signalling bit, a decimal bit, an exponent and a significand of *)
(* SigBits bits normalised to [1/2, 1), so that a normal value is          *)
(* sig * 2^(uexp - SigBits).  The target formats are scaled the same way   *)
(* (a significand of p bits, exponents in emin..emax).                     *)
(***************************************************************************)
EXTENDS Integers, Sequences, FiniteSets, TLC

VARIABLES pc, flags, call, mpfr_flags, bk, out, sequence, iterators, history

vars == <<pc, flags, call, mpfr_flags, bk, out, sequence, iterators, history>>

(***************************************************************************)
(* Bounds of the model.                                                    *)
(***************************************************************************)
\* Width of the internal significand (SIGNIFICAND_BITS, 160 in GCC).
SigBits == 6

\* Largest exponent of an internal value (MAX_EXP in GCC).
MaxExp == 20

\* Width of HOST_WIDE_INT, narrower than the significand as in GCC (64 < 160).
HostBits == SigBits - 1

(***************************************************************************)
(* Bit helpers.                                                            *)
(***************************************************************************)
RECURSIVE BitLen(_)
BitLen(m) == IF m <= 0 THEN 0 ELSE 1 + BitLen(m \div 2)

Abs(n) == IF n < 0 THEN -n ELSE n

Xor(a, b) == a # b

TestBit(m, i) == (m \div (2 ^ i)) % 2 = 1

\* m with the bits below bit i cleared.
ClearBelow(m, i) == (m \div (2 ^ i)) * (2 ^ i)

(***************************************************************************)
(* REAL_VALUE_TYPE.                                                        *)
(***************************************************************************)
RZero(s) ==
  [cl |-> "rvc_zero", sign |-> s, signalling |-> FALSE, decimal |-> FALSE,
   uexp |-> 0, sig |-> 0]

RInf(s) ==
  [cl |-> "rvc_inf", sign |-> s, signalling |-> FALSE, decimal |-> FALSE,
   uexp |-> 0, sig |-> 0]

\* A NaN; a quiet NaN has the top significand bit set, a signalling one has the
\* bit below it set, and `payload` fills the bits below.
RNaN(s, signalling, payload) ==
  [cl |-> "rvc_nan", sign |-> s, signalling |-> signalling, decimal |-> FALSE,
   uexp |-> 0,
   sig |-> (IF signalling THEN 2 ^ (SigBits - 2) ELSE 2 ^ (SigBits - 1))
           + payload * 2 ^ (SigBits - 3)]

\* The value m * 2^e cut to SigBits bits, the lost bits (and `sticky`) folded
\* into the lowest bit, with whether bits were lost: normalize () after a
\* sticky shift.
MakeReal(s, m, e, sticky) ==
  LET cut(L, shift) ==
        LET fin(q, lost, uexp) ==
              IF uexp > MaxExp THEN [val |-> RInf(s), inexact |-> lost]
              ELSE IF uexp < -MaxExp THEN [val |-> RZero(s), inexact |-> lost]
              ELSE [val |-> [cl |-> "rvc_normal", sign |-> s,
                             signalling |-> FALSE, decimal |-> FALSE,
                             uexp |-> uexp,
                             sig |-> IF lost /\ q % 2 = 0 THEN q + 1 ELSE q],
                    inexact |-> lost]
        IN  fin(IF shift > 0 THEN m \div (2 ^ shift) ELSE m * 2 ^ (-shift),
                sticky \/ (shift > 0 /\ m % (2 ^ shift) # 0),
                e + L)
      len(L) == cut(L, L - SigBits)
  IN  IF m = 0 THEN [val |-> RZero(s), inexact |-> sticky]
      ELSE len(BitLen(m))

\* The exactly representable value m * 2^e.
RNum(s, m, e) == MakeReal(s, m, e, FALSE).val

dconst0 == RZero(FALSE)
dconst1 == RNum(FALSE, 1, 0)
dconstm1 == RNum(TRUE, 1, 0)
dconstinf == RInf(FALSE)

real_isfinite(r) == r.cl # "rvc_inf" /\ r.cl # "rvc_nan"
real_isinf(r) == r.cl = "rvc_inf"
real_isnan(r) == r.cl = "rvc_nan"
real_issignaling_nan(r) == r.cl = "rvc_nan" /\ r.signalling

\* do_compare: -1, 0 or 1, or 2 when unordered (a NaN operand).
do_compare(a, b) ==
  LET mag(x) == IF x.cl = "rvc_zero" THEN <<0, 0, 0>>
                ELSE IF x.cl = "rvc_inf" THEN <<2, 0, 0>>
                ELSE <<1, x.uexp, x.sig>>
      sgn(x) == IF x.cl = "rvc_zero" THEN 0 ELSE IF x.sign THEN -1 ELSE 1
      cmp(sa, sb, x, y) ==
        IF sa # sb THEN (IF sa < sb THEN -1 ELSE 1)
        ELSE IF sa = 0 \/ x = y THEN 0
        ELSE IF \/ x[1] < y[1]
                \/ x[1] = y[1] /\ x[2] < y[2]
                \/ x[1] = y[1] /\ x[2] = y[2] /\ x[3] < y[3]
        THEN (IF sa > 0 THEN -1 ELSE 1)
        ELSE (IF sa > 0 THEN 1 ELSE -1)
  IN  IF a.cl = "rvc_nan" \/ b.cl = "rvc_nan" THEN 2
      ELSE cmp(sgn(a), sgn(b), mag(a), mag(b))

\* real_compare (GE_EXPR / LE_EXPR / GT_EXPR / EQ_EXPR, a, b).
real_compare_ge(a, b) == do_compare(a, b) \in {0, 1}
real_compare_le(a, b) == do_compare(a, b) \in {0, -1}
real_compare_gt(a, b) == do_compare(a, b) = 1
real_equal(a, b) == do_compare(a, b) = 0

real_identical(a, b) ==
  IF a.cl # b.cl THEN FALSE
  ELSE IF a.sign # b.sign THEN FALSE
  ELSE IF a.cl \in {"rvc_zero", "rvc_inf"} THEN TRUE
  ELSE IF a.cl = "rvc_normal"
       THEN a.decimal = b.decimal /\ a.uexp = b.uexp /\ a.sig = b.sig
  ELSE a.signalling = b.signalling /\ a.sig = b.sig

(***************************************************************************)
(* Target formats (struct real_format).                                    *)
(***************************************************************************)
BinaryFormat ==
  [b |-> 2, p |-> 3, pnan |-> 3, emin |-> -3, emax |-> 12,
   round_towards_zero |-> FALSE, has_inf |-> TRUE, has_denorm |-> TRUE,
   has_signed_zero |-> TRUE]

TruncatingFormat ==
  [b |-> 2, p |-> 3, pnan |-> 3, emin |-> -3, emax |-> 12,
   round_towards_zero |-> TRUE, has_inf |-> TRUE, has_denorm |-> FALSE,
   has_signed_zero |-> TRUE]

DecimalFormat ==
  [b |-> 10, p |-> 3, pnan |-> 3, emin |-> -3, emax |-> 12,
   round_towards_zero |-> FALSE, has_inf |-> TRUE, has_denorm |-> TRUE,
   has_signed_zero |-> TRUE]

Formats == {BinaryFormat, TruncatingFormat, DecimalFormat}

\* normalize (): shift the significand up until its top bit is set.
normalize(r) ==
  LET shifted(up) ==
        [r EXCEPT !.sig = r.sig * 2 ^ up, !.uexp = r.uexp - up]
  IN  IF r.cl # "rvc_normal" THEN r
      ELSE IF r.sig = 0 THEN RZero(r.sign)
      ELSE shifted(SigBits - BitLen(r.sig))

\* round_for_format: round r to the format's exponent range and precision; the
\* result of a denormal keeps its unnormalised significand.  A decimal value
\* goes to decimal_round_for_format, which leaves the decimal values of the
\* model (at most p digits, exponent in range) as they are.
round_for_format(fmt, r) ==
  LET np2 == SigBits - fmt.p
      emin2m1 == fmt.emin - 1
      under == RZero(IF fmt.has_signed_zero THEN r.sign ELSE FALSE)
      over == RInf(r.sign)
      diff == fmt.emin - r.uexp
      denorm == r.uexp <= fmt.emin - 1 /\ fmt.has_denorm
      \* Round sig1 * 2^(exp1 - SigBits) to p bits.
      round(sig1, exp1) ==
        LET fin(sum, carry) ==
              LET exp2 == IF carry THEN exp1 + 1 ELSE exp1
              IN  IF exp2 > fmt.emax THEN over
                  ELSE IF exp2 <= emin2m1 THEN under
                  ELSE [r EXCEPT
                          !.sig = ClearBelow(IF carry THEN 2 ^ (SigBits - 1)
                                             ELSE sum, np2),
                          !.uexp = exp2]
            up(s) == fin(s, s >= 2 ^ SigBits)
        IN  up(IF /\ ~fmt.round_towards_zero
                  /\ TestBit(sig1, np2 - 1)
                  /\ (sig1 % (2 ^ (np2 - 1)) # 0 \/ TestBit(sig1, np2))
               THEN sig1 + 2 ^ np2 ELSE sig1)
      \* sticky_rshift_significand
      shift(q, lost) == IF lost /\ q % 2 = 0 THEN q + 1 ELSE q
  IN  CASE r.decimal -> r
        [] r.cl = "rvc_zero" -> under
        [] r.cl = "rvc_inf" -> r
        [] r.cl = "rvc_nan" -> [r EXCEPT !.sig = ClearBelow(r.sig, np2)]
        [] OTHER ->
             IF r.uexp > fmt.emax THEN over
             ELSE IF r.uexp < emin2m1 /\ ~fmt.has_denorm THEN under
             ELSE IF denorm /\ diff > fmt.p THEN under
             ELSE IF denorm
             THEN round(shift(r.sig \div (2 ^ diff), r.sig % (2 ^ diff) # 0),
                        r.uexp + diff)
             ELSE round(r.sig, r.uexp)

\* decimal_real_convert: a value and a format of the same radix are left
\* alone; otherwise the value is re-encoded in the other radix, which is what
\* the `decimal` bit of a normal value records.
decimal_real_convert(fmt, a) ==
  IF a.decimal /\ fmt.b = 10 THEN a
  ELSE IF a.decimal THEN [a EXCEPT !.decimal = FALSE]
  ELSE IF a.cl = "rvc_normal" THEN [a EXCEPT !.decimal = TRUE]
  ELSE a

\* real_convert: round to the format, quiet a NaN, renormalise a denormal.
real_convert(fmt, a) ==
  LET fin(r) == IF r.cl = "rvc_nan" THEN [r EXCEPT !.signalling = FALSE]
                ELSE normalize(r)
  IN  fin(round_for_format(fmt, IF a.decimal \/ fmt.b = 10
                                THEN decimal_real_convert(fmt, a) ELSE a))

(***************************************************************************)
(* Numeric safety flags (read-only) and the backend's exception flags.     *)
(***************************************************************************)
FlagSettings ==
  [trapping_math : BOOLEAN, rounding_math : BOOLEAN, errno_math : BOOLEAN,
   signaling_nans : BOOLEAN, unsafe_math_optimizations : BOOLEAN]

MpfrFlagsClear == [overflow |-> FALSE, underflow |-> FALSE]

\* mpfr_clear_flags ()
mpfr_clear_flags(mf) == MpfrFlagsClear

\* The flags after a backend call that raised what outcome b says.
mpfr_raise(mf, b) ==
  [overflow |-> mf.overflow \/ b.overflow,
   underflow |-> mf.underflow \/ b.underflow]

mpfr_overflow_p(mf) == mf.overflow
mpfr_underflow_p(mf) == mf.underflow

(***************************************************************************)
(* Working-precision values (mpfr_t): value sig * 2^(exp - SigBits), the   *)
(* significand holding prec bits.  The exponent range of the backend is    *)
(* wider than that of REAL_VALUE_TYPE.                                     *)
(***************************************************************************)
MNaN == [cl |-> "nan", sign |-> FALSE, exp |-> 0, sig |-> 0]
MInf(s) == [cl |-> "inf", sign |-> s, exp |-> 0, sig |-> 0]
MZero(s) == [cl |-> "zero", sign |-> s, exp |-> 0, sig |-> 0]

\* m * 2^e (with `sticky` when the true value lies just above it) rounded to
\* prec bits in mode rnd, and whether the rounding was inexact.
MpfrRound(s, m, e, sticky, prec, rnd) ==
  LET cut(L, shift) ==
        LET fin(q, rem, half) ==
              LET up == /\ rnd = "MPFR_RNDN"
                        /\ shift > 0
                        /\ \/ rem > half
                           \/ rem = half /\ (sticky \/ q % 2 = 1)
                  carry == up /\ q + 1 = 2 ^ prec
              IN  [val |-> [cl |-> "num", sign |-> s,
                            exp |-> e + L + (IF carry THEN 1 ELSE 0),
                            sig |-> (IF carry THEN 2 ^ (prec - 1)
                                     ELSE IF up THEN q + 1 ELSE q)
                                    * 2 ^ (SigBits - prec)],
                   inexact |-> rem # 0 \/ sticky]
        IN  IF shift > 0
            THEN fin(m \div (2 ^ shift), m % (2 ^ shift), 2 ^ (shift - 1))
            ELSE fin(m * 2 ^ (-shift), 0, 1)
      len(L) == cut(L, L - prec)
  IN  IF m = 0 THEN [val |-> MZero(s), inexact |-> sticky]
      ELSE len(BitLen(m))

\* The exactly representable working value m * 2^e.
MNum(s, m, e) == MpfrRound(s, m, e, FALSE, SigBits, "MPFR_RNDN").val

mpfr_number_p(m) == m.cl \in {"zero", "num"}
mpfr_zero_p(m) == m.cl = "zero"

\* mpfr_from_real (m, r, MPFR_RNDN) into a value of prec bits, r finite.
mpfr_from_real(r, prec) ==
  IF r.cl = "rvc_zero" THEN MZero(r.sign)
  ELSE MpfrRound(r.sign, r.sig, r.uexp - SigBits, FALSE, prec, "MPFR_RNDN").val

\* real_from_mpfr (r, m, format, MPFR_RNDN): through a hexadecimal string;
\* an exponent REAL_VALUE_TYPE cannot hold becomes an infinity or a zero.
real_from_mpfr(m, format) ==
  CASE m.cl = "inf" -> RInf(m.sign)
    [] m.cl = "nan" -> RNaN(FALSE, FALSE, 0)
    [] m.cl = "zero" -> RZero(m.sign)
    [] OTHER ->
         IF m.exp > MaxExp THEN RInf(m.sign)
         ELSE IF m.exp < -MaxExp THEN RZero(m.sign)
         ELSE [cl |-> "rvc_normal", sign |-> m.sign, signalling |-> FALSE,
               decimal |-> FALSE, uexp |-> m.exp, sig |-> m.sig]

(***************************************************************************)
(* The exactness gate.                                                     *)
(***************************************************************************)
NoValue == [cl |-> "none"]

\* The gate without its look at the backend's overflow and underflow flags.
do_mpfr_ckconv_flags_unchecked(m, inexact, format, mf, fl) ==
  LET failed == [ok |-> FALSE, result |-> NoValue]
      converted(tmp, result) ==
        [ok |-> real_identical(result, tmp), result |-> result]
      checked(tmp) ==
        IF \/ ~real_isfinite(tmp)
           \/ (tmp.cl = "rvc_zero") # mpfr_zero_p(m)
        THEN failed
        ELSE converted(tmp, real_convert(format, tmp))
  IN  IF ~mpfr_number_p(m) \/ (fl.rounding_math /\ inexact)
      THEN failed
      ELSE checked(real_from_mpfr(m, format))

\* The gate without the comparison of the converted value with the value
\* it was converted from.
do_mpfr_ckconv_unverified(m, inexact, format, mf, fl) ==
  LET failed == [ok |-> FALSE, result |-> NoValue]
      checked(tmp) ==
        IF \/ ~real_isfinite(tmp)
           \/ (tmp.cl = "rvc_zero") # mpfr_zero_p(m)
        THEN failed
        ELSE [ok |-> TRUE, result |-> real_convert(format, tmp)]
  IN  IF \/ ~mpfr_number_p(m)
         \/ mpfr_overflow_p(mf)
         \/ mpfr_underflow_p(mf)
         \/ (fl.rounding_math /\ inexact)
      THEN failed
      ELSE checked(real_from_mpfr(m, format))

\* The gate without the finiteness test of the value read back from the
\* backend.
do_mpfr_ckconv_nonfinite_kept(m, inexact, format, mf, fl) ==
  LET failed == [ok |-> FALSE, result |-> NoValue]
      converted(tmp, result) ==
        [ok |-> real_identical(result, tmp), result |-> result]
      checked(tmp) ==
        IF (tmp.cl = "rvc_zero") # mpfr_zero_p(m) THEN failed
        ELSE converted(tmp, real_convert(format, tmp))
  IN  IF \/ ~mpfr_number_p(m)
         \/ mpfr_overflow_p(mf)
         \/ mpfr_underflow_p(mf)
         \/ (fl.rounding_math /\ inexact)
      THEN failed
      ELSE checked(real_from_mpfr(m, format))

\* do_mpfr_ckconv: m is the backend's result, mf the backend's flags after
\* the call.
do_mpfr_ckconv(m, inexact, format, mf, fl) ==
  LET failed == [ok |-> FALSE, result |-> NoValue]
      converted(tmp, result) ==
        [ok |-> real_identical(result, tmp), result |-> result]
      checked(tmp) ==
        IF \/ ~real_isfinite(tmp)
           \/ (tmp.cl = "rvc_zero") # mpfr_zero_p(m)
        THEN failed
        ELSE converted(tmp, real_convert(format, tmp))
  IN  IF \/ ~mpfr_number_p(m)
         \/ mpfr_overflow_p(mf)
         \/ mpfr_underflow_p(mf)
         \/ (fl.rounding_math /\ inexact)
      THEN failed
      ELSE checked(real_from_mpfr(m, format))

\* The rounding mode the generic path asks of the backend.
mpfr_rnd(format) ==
  IF format.round_towards_zero THEN "MPFR_RNDZ" ELSE "MPFR_RNDN"

NotInvoked(mf) ==
  [ok |-> FALSE, result |-> NoValue, invoked |-> FALSE, mflags |-> mf]

\* What a handler hands back: whether it folded, the value, whether the
\* backend was called, and the backend's flags afterwards.
Handled(ok, result, invoked, mf) ==
  [ok |-> ok, result |-> IF ok THEN result ELSE NoValue, invoked |-> invoked,
   mflags |-> mf]

\* The call of the backend function without mpfr_clear_flags () before it.
call_and_check_flags_kept(b, format, mf, fl) ==
  LET fin(ck, mf1) ==
        [ok |-> ck.ok, result |-> ck.result, invoked |-> TRUE, mflags |-> mf1]
      run(mf1) == fin(do_mpfr_ckconv(b.m, b.inexact, format, mf1, fl), mf1)
  IN  run(mpfr_raise(mf, b))

\* The call of the backend function and the check of what it returned:
\* mpfr_clear_flags (); inexact = func (...); ok = do_mpfr_ckconv (...).
\* b is what the backend function returns.
call_and_check(b, format, mf, fl) ==
  LET fin(ck, mf1) ==
        [ok |-> ck.ok, result |-> ck.result, invoked |-> TRUE, mflags |-> mf1]
      run(mf1) == fin(do_mpfr_ckconv(b.m, b.inexact, format, mf1, fl), mf1)
  IN  run(mpfr_raise(mpfr_clear_flags(mf), b))

\* do_mpfr_arg1 without the test of the format's radix.
do_mpfr_arg1_any_radix(b, arg, format, mf, fl) ==
  IF ~real_isfinite(arg) THEN NotInvoked(mf)
  ELSE call_and_check(b, format, mf, fl)

\* do_mpfr_arg1
do_mpfr_arg1(b, arg, format, mf, fl) ==
  IF format.b # 2 \/ ~real_isfinite(arg) THEN NotInvoked(mf)
  ELSE call_and_check(b, format, mf, fl)

\* do_mpfr_arg2 (real, real)
do_mpfr_arg2(b, arg0, arg1, format, mf, fl) ==
  IF format.b # 2 \/ ~real_isfinite(arg0) \/ ~real_isfinite(arg1)
  THEN NotInvoked(mf)
  ELSE call_and_check(b, format, mf, fl)

\* do_mpfr_arg2 (integer, real)
do_mpfr_arg2_int(b, arg0, arg1, format, mf, fl) ==
  IF format.b # 2 \/ ~real_isfinite(arg1) THEN NotInvoked(mf)
  ELSE call_and_check(b, format, mf, fl)

\* do_mpfr_arg3
do_mpfr_arg3(b, arg0, arg1, arg2, format, mf, fl) ==
  IF \/ format.b # 2
     \/ ~real_isfinite(arg0)
     \/ ~real_isfinite(arg1)
     \/ ~real_isfinite(arg2)
  THEN NotInvoked(mf)
  ELSE call_and_check(b, format, mf, fl)

\* do_mpfr_sincos with the check of the cosine left out.
do_mpfr_sincos_sine_only(b, arg, format, mf, fl) ==
  LET fin(cks, ckc, mf1) ==
        [ok |-> cks.ok,
         result_sin |-> cks.result,
         result_cos |-> real_from_mpfr(b.mc, format),
         invoked |-> TRUE, mflags |-> mf1]
      run(mf1) == fin(do_mpfr_ckconv(b.m, b.inexact, format, mf1, fl),
                      do_mpfr_ckconv(b.mc, b.inexact, format, mf1, fl), mf1)
  IN  IF format.b # 2 \/ ~real_isfinite(arg)
      THEN [ok |-> FALSE, result_sin |-> NoValue, result_cos |-> NoValue,
            invoked |-> FALSE, mflags |-> mf]
      ELSE run(mpfr_raise(mpfr_clear_flags(mf), b))

\* do_mpfr_sincos: b.m is the sine and b.mc the cosine; the cosine is only
\* checked when the sine passed.
do_mpfr_sincos(b, arg, format, mf, fl) ==
  LET fin(cks, ckc, mf1) ==
        [ok |-> cks.ok /\ ckc.ok,
         result_sin |-> cks.result,
         result_cos |-> IF cks.ok THEN ckc.result ELSE NoValue,
         invoked |-> TRUE, mflags |-> mf1]
      run(mf1) == fin(do_mpfr_ckconv(b.m, b.inexact, format, mf1, fl),
                      do_mpfr_ckconv(b.mc, b.inexact, format, mf1, fl), mf1)
  IN  IF format.b # 2 \/ ~real_isfinite(arg)
      THEN [ok |-> FALSE, result_sin |-> NoValue, result_cos |-> NoValue,
            invoked |-> FALSE, mflags |-> mf]
      ELSE run(mpfr_raise(mpfr_clear_flags(mf), b))

(***************************************************************************)
(* Arithmetic of real.cc used by the special-value handlers.               *)
(***************************************************************************)
\* do_add (r, a, b, subtract_p): the sum (or difference) at internal
\* precision, lost bits folded into the lowest bit.
do_add(a, b, subtract_p) ==
  LET sub == Xor(Xor(a.sign, b.sign), subtract_p)
      \* x is the operand with the larger exponent.
      aligned(x, y, sign0) ==
        LET dexp == x.uexp - y.uexp
            summed(raw, ylost) ==
              IF raw = 0 THEN RZero(FALSE)
              ELSE MakeReal(IF raw < 0 THEN ~sign0 ELSE sign0, Abs(raw),
                            x.uexp - SigBits, ylost).val
            shifted(ysh, ylost) ==
              summed(IF sub
                     THEN x.sig - (IF ylost /\ ysh % 2 = 0 THEN ysh + 1 ELSE ysh)
                     ELSE x.sig + (IF ylost /\ ysh % 2 = 0 THEN ysh + 1 ELSE ysh),
                     ylost)
        IN  IF dexp >= SigBits THEN [x EXCEPT !.sign = sign0]
            ELSE shifted(y.sig \div (2 ^ dexp), y.sig % (2 ^ dexp) # 0)
  IN  CASE a.cl = "rvc_nan" -> [a EXCEPT !.signalling = FALSE]
        [] b.cl = "rvc_nan" -> [b EXCEPT !.signalling = FALSE]
        [] a.cl = "rvc_inf" /\ b.cl = "rvc_inf" ->
             IF sub THEN RNaN(FALSE, FALSE, 0) ELSE a
        [] a.cl = "rvc_inf" -> a
        [] b.cl = "rvc_inf" -> [b EXCEPT !.sign = Xor(b.sign, subtract_p)]
        [] a.cl = "rvc_zero" /\ b.cl = "rvc_zero" ->
             RZero(a.sign /\ ~sub)
        [] b.cl = "rvc_zero" -> a
        [] a.cl = "rvc_zero" -> [b EXCEPT !.sign = Xor(b.sign, subtract_p)]
        [] OTHER ->
             IF a.uexp < b.uexp THEN aligned(b, a, Xor(a.sign, sub))
             ELSE aligned(a, b, a.sign)

\* The result of an operation on a NaN, a zero or an infinity.
Exactly(v) == [val |-> v, inexact |-> FALSE]

\* do_multiply (r, a, b): the product and whether it was inexact.
do_multiply(a, b) ==
  LET sign == Xor(a.sign, b.sign)
  IN  CASE a.cl = "rvc_nan" -> Exactly([a EXCEPT !.signalling = FALSE])
        [] b.cl = "rvc_nan" -> Exactly([b EXCEPT !.signalling = FALSE])
        [] a.cl = "rvc_zero" /\ b.cl = "rvc_inf" -> Exactly(RNaN(sign, FALSE, 0))
        [] a.cl = "rvc_inf" /\ b.cl = "rvc_zero" -> Exactly(RNaN(sign, FALSE, 0))
        [] a.cl = "rvc_zero" \/ b.cl = "rvc_zero" -> Exactly(RZero(sign))
        [] a.cl = "rvc_inf" \/ b.cl = "rvc_inf" -> Exactly(RInf(sign))
        [] OTHER ->
             MakeReal(sign, a.sig * b.sig, a.uexp + b.uexp - 2 * SigBits,
                      FALSE)

\* do_divide (r, a, b): the quotient and whether it was inexact.
do_divide(a, b) ==
  LET sign == Xor(a.sign, b.sign)
      quot(num) == MakeReal(sign, num \div b.sig,
                            a.uexp - b.uexp - SigBits - 1, num % b.sig # 0)
  IN  CASE a.cl = "rvc_nan" -> Exactly([a EXCEPT !.signalling = FALSE])
        [] b.cl = "rvc_nan" -> Exactly([b EXCEPT !.signalling = FALSE])
        [] a.cl = "rvc_zero" /\ b.cl = "rvc_zero" -> Exactly(RNaN(sign, FALSE, 0))
        [] a.cl = "rvc_inf" /\ b.cl = "rvc_inf" -> Exactly(RNaN(sign, FALSE, 0))
        [] a.cl = "rvc_zero" \/ b.cl = "rvc_inf" -> Exactly(RZero(sign))
        [] b.cl = "rvc_zero" \/ a.cl = "rvc_inf" -> Exactly(RInf(sign))
        [] OTHER -> quot(a.sig * 2 ^ (SigBits + 1))

\* real_to_integer (r): truncation to HOST_WIDE_INT, saturating on overflow.
real_to_integer(r) ==
  LET overflow == IF r.sign THEN -(2 ^ (HostBits - 1))
                  ELSE 2 ^ (HostBits - 1) - 1
      signed(w) == IF w >= 2 ^ (HostBits - 1) THEN w - 2 ^ HostBits ELSE w
      wrapped(u) ==
        signed(IF r.sign THEN (2 ^ HostBits - u) % (2 ^ HostBits) ELSE u)
  IN  CASE r.cl = "rvc_zero" -> 0
        [] r.cl \in {"rvc_inf", "rvc_nan"} -> overflow
        [] OTHER ->
             IF r.uexp <= 0 THEN 0
             ELSE IF r.uexp > HostBits THEN overflow
             ELSE wrapped(r.sig \div (2 ^ (SigBits - r.uexp)))

VOIDmode == [b |-> 0]

\* real_from_integer (r, fmt, val, SIGNED)
real_from_integer(fmt, val) ==
  LET fin(v) == IF fmt = VOIDmode THEN v ELSE real_convert(fmt, v)
  IN  fin(IF val = 0 THEN RZero(FALSE) ELSE RNum(val < 0, Abs(val), 0))

\* real_powi (r, fmt, x, n): x^n by repeated squaring from the top bit of
\* |n|; `inexact` reports the multiplications and the division only.
RECURSIVE powi_loop(_, _, _, _)
powi_loop(t, x, n, i) ==
  LET times(sq) ==
        LET fin(mx) ==
              [val |-> mx.val,
               inexact |-> t.inexact \/ sq.inexact \/ mx.inexact]
        IN  IF TestBit(n, i) THEN fin(do_multiply(sq.val, x))
            ELSE [val |-> sq.val, inexact |-> t.inexact \/ sq.inexact]
      step(t1) == powi_loop(t1, x, n, i - 1)
  IN  IF i < 0 THEN t
      ELSE step(times(do_multiply(t.val, t.val)))

real_powi(fmt, x, n) ==
  LET inverse(t) ==
        LET fin(d) == [val |-> real_convert(fmt, d.val),
                       inexact |-> t.inexact \/ d.inexact]
        IN  fin(do_divide(dconst1, t.val))
      powered(t) ==
        IF n < 0 THEN inverse(t)
        ELSE [val |-> real_convert(fmt, t.val), inexact |-> t.inexact]
  IN  IF n = 0 THEN [val |-> dconst1, inexact |-> FALSE]
      ELSE powered(powi_loop([val |-> x, inexact |-> FALSE], x, Abs(n),
                             BitLen(Abs(n)) - 2))

(***************************************************************************)
(* Rounding to an integer value (real_floor and friends in real.cc).       *)
(***************************************************************************)
dconsthalf == RNum(FALSE, 1, -1)

\* do_fix_trunc: drop the fraction bits.
do_fix_trunc(a) ==
  CASE a.cl \in {"rvc_zero", "rvc_inf"} -> a
    [] a.cl = "rvc_nan" -> [a EXCEPT !.signalling = FALSE]
    [] OTHER ->
         IF a.uexp <= 0 THEN [RZero(a.sign) EXCEPT !.decimal = FALSE]
         ELSE IF a.uexp < SigBits
         THEN [a EXCEPT !.sig = ClearBelow(a.sig, SigBits - a.uexp)]
         ELSE a

real_trunc(fmt, x) == real_convert(fmt, do_fix_trunc(x))

real_floor(fmt, x) ==
  LET adjust(t) == IF ~real_identical(t, x) /\ x.sign
                   THEN do_add(t, dconstm1, FALSE) ELSE t
  IN  real_convert(fmt, adjust(do_fix_trunc(x)))

real_ceil(fmt, x) ==
  LET adjust(t) == IF ~real_identical(t, x) /\ ~x.sign
                   THEN do_add(t, dconst1, FALSE) ELSE t
  IN  real_convert(fmt, adjust(do_fix_trunc(x)))

real_round(fmt, x) ==
  real_convert(fmt, do_fix_trunc(do_add(x, dconsthalf, x.sign)))

is_halfway_below(r) ==
  /\ r.cl = "rvc_normal"
  /\ r.uexp >= 0
  /\ r.uexp < SigBits
  /\ TestBit(r.sig, SigBits - r.uexp - 1)
  /\ r.sig % (2 ^ (SigBits - r.uexp - 1)) = 0

is_even(r) ==
  \/ r.cl = "rvc_zero"
  \/ r.uexp <= 0
  \/ r.uexp > SigBits
  \/ ~TestBit(r.sig, SigBits - r.uexp)

real_roundeven(fmt, x) ==
  LET adjust(r) == IF ~is_even(r) THEN do_add(r, dconstm1, x.sign) ELSE r
  IN  IF is_halfway_below(x)
      THEN real_convert(fmt, adjust(do_add(x, dconsthalf, x.sign)))
      ELSE real_round(fmt, x)

(***************************************************************************)
(* Special-value handlers.                                                 *)
(***************************************************************************)
Special(ok, result, mf) ==
  [ok |-> ok, result |-> IF ok THEN result ELSE NoValue, invoked |-> FALSE,
   mflags |-> mf]

\* What the dispatcher returns for a handler's [ok, result].
FromHandler(r, mf) == Special(r.ok, r.result, mf)

\* fold_const_logb with the stored exponent as the result of a normal value.
fold_const_logb_stored_exponent(arg, format) ==
  CASE arg.cl = "rvc_nan" -> [ok |-> TRUE, result |-> arg]
    [] arg.cl = "rvc_inf" -> [ok |-> TRUE, result |-> [arg EXCEPT !.sign = FALSE]]
    [] arg.cl = "rvc_zero" -> [ok |-> FALSE, result |-> NoValue]
    [] OTHER ->
         IF format.b = 2
         THEN [ok |-> TRUE, result |-> real_from_integer(format, arg.uexp)]
         ELSE [ok |-> FALSE, result |-> NoValue]

\* fold_const_logb with a NaN passed through the conversion to the format.
fold_const_logb_nan_converted(arg, format) ==
  CASE arg.cl = "rvc_nan" ->
         [ok |-> TRUE, result |-> real_convert(format, arg)]
    [] arg.cl = "rvc_inf" -> [ok |-> TRUE, result |-> [arg EXCEPT !.sign = FALSE]]
    [] arg.cl = "rvc_zero" -> [ok |-> FALSE, result |-> NoValue]
    [] OTHER ->
         IF format.b = 2
         THEN [ok |-> TRUE, result |-> real_from_integer(format, arg.uexp - 1)]
         ELSE [ok |-> FALSE, result |-> NoValue]

\* fold_const_logb
fold_const_logb(arg, format) ==
  CASE arg.cl = "rvc_nan" -> [ok |-> TRUE, result |-> arg]
    [] arg.cl = "rvc_inf" -> [ok |-> TRUE, result |-> [arg EXCEPT !.sign = FALSE]]
    [] arg.cl = "rvc_zero" -> [ok |-> FALSE, result |-> NoValue]
    [] OTHER ->
         IF format.b = 2
         THEN [ok |-> TRUE, result |-> real_from_integer(format, arg.uexp - 1)]
         ELSE [ok |-> FALSE, result |-> NoValue]

\* fold_const_significand
fold_const_significand(arg, format) ==
  IF arg.cl \in {"rvc_zero", "rvc_nan", "rvc_inf"}
  THEN [ok |-> TRUE, result |-> arg]
  ELSE IF format.b = 2
  THEN [ok |-> TRUE, result |-> [arg EXCEPT !.uexp = 1]]
  ELSE [ok |-> FALSE, result |-> NoValue]

(***************************************************************************)
(* Real -> real functions: fold_const_call_ss.                             *)
(***************************************************************************)
\* Functions that go to do_mpfr_arg1 with no domain guard.
UnguardedFns ==
  {"cbrt", "atan", "asinh", "sin", "cos", "tan", "sinh", "cosh", "tanh",
   "atanpi", "cospi", "sinpi", "tanpi", "erf", "erfc", "tgamma", "exp",
   "exp2", "exp10", "expm1", "j0", "j1"}

\* The domain guards without the one of sqrt.
domain_ok_sqrt_unguarded(fn, arg) ==
  CASE fn \in {"asin", "acos", "atanh", "acospi", "asinpi"} ->
         real_compare_ge(arg, dconstm1) /\ real_compare_le(arg, dconst1)
    [] fn = "acosh" -> real_compare_ge(arg, dconst1)
    [] fn \in {"log", "log2", "log10"} -> real_compare_gt(arg, dconst0)
    [] fn = "log1p" -> real_compare_gt(arg, dconstm1)
    [] fn \in {"y0", "y1"} -> real_compare_gt(arg, dconst0)
    [] OTHER -> TRUE

\* The domain guard that runs before do_mpfr_arg1.
domain_ok(fn, arg) ==
  CASE fn = "sqrt" -> real_compare_ge(arg, dconst0)
    [] fn \in {"asin", "acos", "atanh", "acospi", "asinpi"} ->
         real_compare_ge(arg, dconstm1) /\ real_compare_le(arg, dconst1)
    [] fn = "acosh" -> real_compare_ge(arg, dconst1)
    [] fn \in {"log", "log2", "log10"} -> real_compare_gt(arg, dconst0)
    [] fn = "log1p" -> real_compare_gt(arg, dconstm1)
    [] fn \in {"y0", "y1"} -> real_compare_gt(arg, dconst0)
    [] OTHER -> TRUE

GuardedFns ==
  {"sqrt", "asin", "acos", "atanh", "acospi", "asinpi", "acosh", "log",
   "log2", "log10", "log1p", "y0", "y1"}

RoundingFns == {"floor", "ceil", "trunc", "round", "roundeven"}

\* The value real_floor, real_ceil, real_trunc, real_round or real_roundeven
\* gives.
RoundedValue(fn, arg, format) ==
  CASE fn = "floor" -> real_floor(format, arg)
    [] fn = "ceil" -> real_ceil(format, arg)
    [] fn = "trunc" -> real_trunc(format, arg)
    [] fn = "round" -> real_round(format, arg)
    [] OTHER -> real_roundeven(format, arg)

\* The cases FLOOR to ROUNDEVEN without the test for a signalling NaN.
fold_const_call_ss_rounding_unchecked(fn, arg, format) ==
  [ok |-> TRUE, result |-> RoundedValue(fn, arg, format)]

\* fold_const_call_ss: the cases FLOOR, CEIL, TRUNC, ROUND and ROUNDEVEN.
fold_const_call_ss_rounding(fn, arg, format) ==
  IF ~real_issignaling_nan(arg)
  THEN [ok |-> TRUE, result |-> RoundedValue(fn, arg, format)]
  ELSE [ok |-> FALSE, result |-> NoValue]

fold_const_call_ss(b, fn, arg, format, mf, fl) ==
  CASE fn \in GuardedFns ->
         IF domain_ok(fn, arg) THEN do_mpfr_arg1(b, arg, format, mf, fl)
         ELSE NotInvoked(mf)
    [] fn \in UnguardedFns -> do_mpfr_arg1(b, arg, format, mf, fl)
    [] fn \in RoundingFns ->
         FromHandler(fold_const_call_ss_rounding(fn, arg, format), mf)
    [] fn = "logb" -> FromHandler(fold_const_logb(arg, format), mf)
    [] fn = "significand" ->
         FromHandler(fold_const_significand(arg, format), mf)
    [] OTHER -> Special(FALSE, NoValue, mf)

(***************************************************************************)
(* The arbitrary-precision backend (MPFR / MPC): an external library.  A   *)
(* call returns a result of prec bits, whether it was inexact, and the     *)
(* exception flags it raised.  What a transcendental function returns is   *)
(* not modelled: any of the outcomes below may come back.                  *)
(***************************************************************************)
Outcome(m, inexact, overflow, underflow) ==
  [m |-> m, inexact |-> inexact, overflow |-> overflow,
   underflow |-> underflow]

\* Working values a backend call may return for a format.
MGood(format) == MNum(FALSE, 1, 0)
MInexact(format) == MNum(TRUE, 2 ^ (format.p - 1) + 1, 1 - format.p)
MHuge(format) == MNum(FALSE, 1, MaxExp + 1)
MTiny(format) == MNum(TRUE, 1, -MaxExp - 3)
MLargest(format) == MNum(FALSE, 2 ^ format.p - 1, format.emax - format.p)
MAboveEmax(format) == MNum(FALSE, 1, format.emax)
MDenormal(format) == MNum(FALSE, 1, format.emin - format.p)
MDenormalLossy(format) == MNum(FALSE, 3, format.emin - format.p - 1)
MBelowDenormal(format) == MNum(TRUE, 1, format.emin - format.p - 3)

BadWorkingValues(format) ==
  {MNaN, MInf(FALSE), MInf(TRUE), MHuge(format), MTiny(format),
   MAboveEmax(format), MDenormalLossy(format), MBelowDenormal(format)}

GenericOutcomes(format) ==
  {Outcome(MGood(format), FALSE, FALSE, FALSE),
   Outcome(MInexact(format), TRUE, FALSE, FALSE),
   Outcome(MDenormal(format), FALSE, FALSE, FALSE),
   Outcome(MLargest(format), TRUE, FALSE, FALSE),
   Outcome(MZero(FALSE), FALSE, FALSE, FALSE),
   Outcome(MZero(TRUE), TRUE, FALSE, FALSE),
   Outcome(MGood(format), TRUE, TRUE, FALSE),
   Outcome(MGood(format), TRUE, FALSE, TRUE),
   Outcome(MInf(FALSE), TRUE, TRUE, FALSE),
   Outcome(MZero(FALSE), TRUE, FALSE, TRUE)}
  \cup {Outcome(m, FALSE, FALSE, FALSE) : m \in BadWorkingValues(format)}

\* Outcomes of mpfr_sin_cos: the sine in m, the cosine in mc.
SinCosOutcomes(format) ==
  {[m |-> o.m, mc |-> MGood(format), inexact |-> o.inexact,
    overflow |-> o.overflow, underflow |-> o.underflow]
     : o \in GenericOutcomes(format)}
  \cup {[m |-> MGood(format), mc |-> o.m, inexact |-> o.inexact,
         overflow |-> o.overflow, underflow |-> o.underflow]
          : o \in GenericOutcomes(format)}

\* Outcomes of an MPC function: the real part in m, the imaginary in mi.
ComplexOutcomes(format) ==
  {[m |-> o.m, mi |-> MInexact(format), inexact |-> o.inexact,
    overflow |-> o.overflow, underflow |-> o.underflow]
     : o \in GenericOutcomes(format)}
  \cup {[m |-> MGood(format), mi |-> o.m, inexact |-> o.inexact,
         overflow |-> o.overflow, underflow |-> o.underflow]
          : o \in GenericOutcomes(format)}

\* Whether a finite value is an integer, and which.
real_is_integer(y) ==
  \/ y.cl = "rvc_zero"
  \/ y.cl = "rvc_normal" /\ y.uexp >= 1
     /\ (y.uexp >= SigBits \/ y.sig % (2 ^ (SigBits - y.uexp)) = 0)

real_integer_value(y) ==
  IF y.cl = "rvc_zero" THEN 0
  ELSE LET u == y.sig \div (2 ^ (SigBits - y.uexp))
       IN  IF y.sign THEN -u ELSE u

\* The odd part xm and the exponent xe of a normal value xm * 2^xe.
RECURSIVE TrailingZeros(_)
TrailingZeros(m) == IF m % 2 = 1 THEN 0 ELSE 1 + TrailingZeros(m \div 2)

\* mpfr_pow (x, y) on finite operands: correctly rounded where the result is
\* a rational the model can compute (an integer power); any outcome for the
\* other powers of a positive base.
mpfr_pow(x, y, format) ==
  LET exact(r) == {Outcome(r.val, r.inexact, FALSE, FALSE)}
      \* xm is the odd part of x and xe its exponent: |x| = xm * 2^xe.
      power(n, sign, xm, xe) ==
        LET inverse(M, K) ==
              exact(MpfrRound(sign, (2 ^ K) \div M, -(xe * Abs(n)) - K,
                              (2 ^ K) % M # 0, format.p, mpfr_rnd(format)))
            of(M) ==
              IF n > 0
              THEN exact(MpfrRound(sign, M, xe * n, FALSE, format.p,
                                   mpfr_rnd(format)))
              ELSE inverse(M, BitLen(M) + format.p + 2)
        IN  of(xm ^ Abs(n))
      split(n, tz) ==
        power(n, x.sign /\ n % 2 = 1, x.sig \div (2 ^ tz),
              x.uexp - SigBits + tz)
      integral(n) ==
        IF x.cl = "rvc_zero"
        THEN IF n < 0
             THEN {Outcome(MInf(x.sign /\ n % 2 = 1), FALSE, FALSE, FALSE)}
             ELSE {Outcome(MZero(x.sign /\ n % 2 = 1), FALSE, FALSE, FALSE)}
        ELSE split(n, TrailingZeros(x.sig))
  IN  IF y.cl = "rvc_zero"
      THEN {Outcome(MNum(FALSE, 1, 0), FALSE, FALSE, FALSE)}
      ELSE IF real_is_integer(y) THEN integral(real_integer_value(y))
      ELSE IF x.cl = "rvc_zero"
      THEN IF y.sign THEN {Outcome(MInf(FALSE), FALSE, FALSE, FALSE)}
           ELSE {Outcome(MZero(FALSE), FALSE, FALSE, FALSE)}
      ELSE IF x.sign THEN {Outcome(MNaN, FALSE, FALSE, FALSE)}
      ELSE GenericOutcomes(format)

(***************************************************************************)
(* The complex generic path.                                               *)
(***************************************************************************)
\* do_mpc_ckconv
do_mpc_ckconv(m_real, m_imag, inexact, format, mf, fl) ==
  LET failed == [ok |-> FALSE, result_real |-> NoValue, result_imag |-> NoValue]
      converted(tmp_real, tmp_imag, result_real, result_imag) ==
        [ok |-> /\ real_identical(result_real, tmp_real)
                /\ real_identical(result_imag, tmp_imag),
         result_real |-> result_real, result_imag |-> result_imag]
      checked(tmp_real, tmp_imag) ==
        IF \/ ~real_isfinite(tmp_real)
           \/ ~real_isfinite(tmp_imag)
           \/ (tmp_real.cl = "rvc_zero") # mpfr_zero_p(m_real)
           \/ (tmp_imag.cl = "rvc_zero") # mpfr_zero_p(m_imag)
        THEN failed
        ELSE converted(tmp_real, tmp_imag, real_convert(format, tmp_real),
                       real_convert(format, tmp_imag))
  IN  IF \/ ~mpfr_number_p(m_real)
         \/ ~mpfr_number_p(m_imag)
         \/ mpfr_overflow_p(mf)
         \/ mpfr_underflow_p(mf)
         \/ (fl.rounding_math /\ inexact)
      THEN failed
      ELSE checked(real_from_mpfr(m_real, format),
                   real_from_mpfr(m_imag, format))

NotInvokedC(mf) ==
  [ok |-> FALSE, result_real |-> NoValue, result_imag |-> NoValue,
   invoked |-> FALSE, mflags |-> mf]

\* The call of the MPC function and the check of what it returned:
\* mpfr_clear_flags (); inexact = func (...); ok = do_mpc_ckconv (...).
call_and_check_mpc(b, format, mf, fl) ==
  LET fin(ck, mf1) ==
        [ok |-> ck.ok, result_real |-> ck.result_real,
         result_imag |-> ck.result_imag, invoked |-> TRUE, mflags |-> mf1]
      run(mf1) ==
        fin(do_mpc_ckconv(b.m, b.mi, b.inexact, format, mf1, fl), mf1)
  IN  run(mpfr_raise(mpfr_clear_flags(mf), b))

\* do_mpc_arg1
do_mpc_arg1(b, arg_real, arg_imag, format, mf, fl) ==
  IF \/ format.b # 2
     \/ ~real_isfinite(arg_real)
     \/ ~real_isfinite(arg_imag)
  THEN NotInvokedC(mf)
  ELSE call_and_check_mpc(b, format, mf, fl)

\* do_mpc_arg2: the format's radix is not looked at.
do_mpc_arg2(b, arg0_real, arg0_imag, arg1_real, arg1_imag, format, mf, fl) ==
  IF \/ ~real_isfinite(arg0_real)
     \/ ~real_isfinite(arg0_imag)
     \/ ~real_isfinite(arg1_real)
     \/ ~real_isfinite(arg1_imag)
  THEN NotInvokedC(mf)
  ELSE call_and_check_mpc(b, format, mf, fl)

(***************************************************************************)
(* Two- and three-operand real functions.                                  *)
(***************************************************************************)
\* fold_const_pow trying the integer power whatever the sign of the exponent,
\* the flags and the base.
fold_const_pow_unguarded(b, arg0, arg1, format, mf, fl) ==
  LET no(g) == Handled(FALSE, NoValue, g.invoked, g.mflags) @@ [powi |-> FALSE]
      powered(g, pw) ==
        IF \/ fl.unsafe_math_optimizations
           \/ /\ ~pw.inexact
              /\ ~(fl.signaling_nans /\ real_issignaling_nan(arg0))
        THEN Handled(TRUE, pw.val, g.invoked, g.mflags) @@ [powi |-> TRUE]
        ELSE no(g)
      fallback(g, n1) ==
        IF real_identical(arg1, real_from_integer(VOIDmode, n1))
        THEN powered(g, real_powi(format, arg0, n1))
        ELSE no(g)
      after(g) == IF g.ok THEN g @@ [powi |-> FALSE]
                  ELSE fallback(g, real_to_integer(arg1))
  IN  after(do_mpfr_arg2(b, arg0, arg1, format, mf, fl))

\* fold_const_pow returning what real_powi computed whether or not it was
\* exact.
fold_const_pow_inexact_kept(b, arg0, arg1, format, mf, fl) ==
  LET no(g) == Handled(FALSE, NoValue, g.invoked, g.mflags) @@ [powi |-> FALSE]
      powered(g, pw) ==
        IF \/ fl.unsafe_math_optimizations
           \/ ~(fl.signaling_nans /\ real_issignaling_nan(arg0))
        THEN Handled(TRUE, pw.val, g.invoked, g.mflags) @@ [powi |-> TRUE]
        ELSE no(g)
      fallback(g, n1) ==
        IF /\ real_identical(arg1, real_from_integer(VOIDmode, n1))
           /\ \/ n1 > 0
              \/ (~fl.trapping_math /\ ~fl.errno_math)
              \/ ~real_equal(arg0, dconst0)
        THEN powered(g, real_powi(format, arg0, n1))
        ELSE no(g)
      after(g) == IF g.ok THEN g @@ [powi |-> FALSE]
                  ELSE fallback(g, real_to_integer(arg1))
  IN  after(do_mpfr_arg2(b, arg0, arg1, format, mf, fl))

\* fold_const_pow: the generic path, then the integer-power fallback.  The
\* field `powi` says the result is the one real_powi computed.
fold_const_pow(b, arg0, arg1, format, mf, fl) ==
  LET no(g) == Handled(FALSE, NoValue, g.invoked, g.mflags) @@ [powi |-> FALSE]
      powered(g, pw) ==
        IF \/ fl.unsafe_math_optimizations
           \/ /\ ~pw.inexact
              /\ ~(fl.signaling_nans /\ real_issignaling_nan(arg0))
        THEN Handled(TRUE, pw.val, g.invoked, g.mflags) @@ [powi |-> TRUE]
        ELSE no(g)
      fallback(g, n1) ==
        IF /\ real_identical(arg1, real_from_integer(VOIDmode, n1))
           /\ \/ n1 > 0
              \/ (~fl.trapping_math /\ ~fl.errno_math)
              \/ ~real_equal(arg0, dconst0)
        THEN powered(g, real_powi(format, arg0, n1))
        ELSE no(g)
      after(g) == IF g.ok THEN g @@ [powi |-> FALSE]
                  ELSE fallback(g, real_to_integer(arg1))
  IN  after(do_mpfr_arg2(b, arg0, arg1, format, mf, fl))

(***************************************************************************)
(* nextafter and nexttoward.                                               *)
(***************************************************************************)
\* real_nextafter (r, fmt, x, y): the value next to x in the direction of y,
\* and whether the step overflowed or underflowed.
real_nextafter(fmt, x, y) ==
  LET cmp == do_compare(x, y)
      np2 == (SigBits - fmt.p)
             + (IF x.cl = "rvc_normal" /\ x.uexp < fmt.emin
                THEN fmt.emin - x.uexp ELSE 0)
      blank == [cl |-> "rvc_normal", sign |-> x.sign, signalling |-> FALSE,
                decimal |-> FALSE, uexp |-> x.uexp, sig |-> 0]
      \* Clear out trailing garbage, normalize, and report.
      finish(r, n) ==
        LET fin(t) ==
              IF t.cl = "rvc_normal" /\ t.uexp <= fmt.emin - fmt.p
              THEN [r |-> RZero(x.sign), raised |-> TRUE]
              ELSE [r |-> t,
                    raised |-> t.cl = "rvc_zero" \/ t.uexp < fmt.emin]
        IN  fin(normalize([r EXCEPT !.sig = ClearBelow(r.sig, n)]))
      away(sum) ==
        LET fin(r) ==
              IF r.uexp > fmt.emax
              THEN [r |-> RInf(x.sign), raised |-> TRUE]
              ELSE finish(r, np2)
        IN  fin(IF sum >= 2 ^ SigBits
                THEN [blank EXCEPT !.uexp = x.uexp + 1,
                                   !.sig = 2 ^ (SigBits - 1)]
                ELSE [blank EXCEPT !.sig = sum])
      toward(n) == finish([blank EXCEPT !.sig = x.sig - 2 ^ n], n)
  IN  CASE cmp = 2 -> [r |-> RNaN(FALSE, FALSE, 0), raised |-> FALSE]
        [] cmp = 0 -> [r |-> real_convert(fmt, y), raised |-> FALSE]
        [] x.cl = "rvc_zero" ->
             [r |-> [cl |-> "rvc_normal", sign |-> y.sign,
                     signalling |-> FALSE, decimal |-> FALSE,
                     uexp |-> fmt.emin - fmt.p + 1,
                     sig |-> 2 ^ (SigBits - 1)],
              raised |-> FALSE]
        [] x.cl = "rvc_inf" ->
             finish([blank EXCEPT !.uexp = fmt.emax,
                                  !.sig = 2 ^ SigBits - 2 ^ np2], np2)
        [] cmp = (IF x.sign THEN 1 ELSE -1) -> away(x.sig + 2 ^ np2)
        [] OTHER ->
             IF x.uexp > fmt.emin /\ x.sig = 2 ^ (SigBits - 1)
             THEN toward(np2 - 1)
             ELSE toward(np2)

\* fold_const_nextafter without the test for a step away from zero.
fold_const_nextafter_zero_step_kept(arg0, arg1, format, fl) ==
  LET after(n) ==
        IF n.raised /\ (fl.trapping_math \/ fl.errno_math)
        THEN [ok |-> FALSE, result |-> NoValue]
        ELSE [ok |-> TRUE, result |-> real_convert(format, n.r)]
  IN  CASE real_issignaling_nan(arg0) \/ real_issignaling_nan(arg1) ->
             [ok |-> FALSE, result |-> NoValue]
        [] \/ format.pnan < format.p
           \/ format.b = 10
           \/ ~format.has_inf
           \/ ~format.has_denorm -> [ok |-> FALSE, result |-> NoValue]
        [] OTHER -> after(real_nextafter(format, arg0, arg1))

\* fold_const_nextafter
fold_const_nextafter(arg0, arg1, format, fl) ==
  LET after(n) ==
        IF n.raised /\ (fl.trapping_math \/ fl.errno_math)
        THEN [ok |-> FALSE, result |-> NoValue]
        ELSE IF /\ fl.trapping_math
                /\ arg0.cl = "rvc_zero"
                /\ n.r.cl # "rvc_zero"
        THEN [ok |-> FALSE, result |-> NoValue]
        ELSE [ok |-> TRUE, result |-> real_convert(format, n.r)]
  IN  CASE real_issignaling_nan(arg0) \/ real_issignaling_nan(arg1) ->
             [ok |-> FALSE, result |-> NoValue]
        [] \/ format.pnan < format.p
           \/ format.b = 10
           \/ ~format.has_inf
           \/ ~format.has_denorm -> [ok |-> FALSE, result |-> NoValue]
        [] OTHER -> after(real_nextafter(format, arg0, arg1))

GenericFns2 ==
  {"drem", "remainder", "atan2", "atan2pi", "fdim", "fmod", "hypot", "fmin", "fmax"}

\* fold_const_call_sss (real, real)
fold_const_call_sss(b, fn, arg0, arg1, format, mf, fl) ==
  CASE fn \in GenericFns2 ->
         do_mpfr_arg2(b, arg0, arg1, format, mf, fl) @@ [powi |-> FALSE]
    [] fn = "copysign" ->
         Special(TRUE, [arg0 EXCEPT !.sign = arg1.sign], mf)
           @@ [powi |-> FALSE]
    [] fn = "pow" -> fold_const_pow(b, arg0, arg1, format, mf, fl)
    [] fn \in {"nextafter", "nexttoward"} ->
         FromHandler(fold_const_nextafter(arg0, arg1, format, fl), mf)
           @@ [powi |-> FALSE]
    [] OTHER -> Special(FALSE, NoValue, mf) @@ [powi |-> FALSE]

\* fold_const_call_sss (integer, real)
fold_const_call_sss_int_real(b, fn, arg0, arg1, format, mf, fl) ==
  CASE fn = "jn" -> do_mpfr_arg2_int(b, arg0, arg1, format, mf, fl)
    [] fn = "yn" ->
         IF real_compare_gt(arg1, dconst0)
         THEN do_mpfr_arg2_int(b, arg0, arg1, format, mf, fl)
         ELSE NotInvoked(mf)
    [] OTHER -> Special(FALSE, NoValue, mf)

\* real_value_negate
real_value_negate(r) == [r EXCEPT !.sign = ~r.sign]

\* fold_const_call_ssss
fold_const_call_ssss(b, fn, arg0, arg1, arg2, format, mf, fl) ==
  CASE fn = "fma" -> do_mpfr_arg3(b, arg0, arg1, arg2, format, mf, fl)
    [] fn = "fms" ->
         do_mpfr_arg3(b, arg0, arg1, real_value_negate(arg2), format, mf, fl)
    [] fn = "fnma" ->
         do_mpfr_arg3(b, real_value_negate(arg0), arg1, arg2, format, mf, fl)
    [] fn = "fnms" ->
         do_mpfr_arg3(b, real_value_negate(arg0), arg1,
                      real_value_negate(arg2), format, mf, fl)
    [] OTHER -> Special(FALSE, NoValue, mf)

(***************************************************************************)
(* Functions with complex operands or results.                             *)
(***************************************************************************)
\* fold_const_call_cs: cexpi; the sine is the imaginary part.
fold_const_call_cs(b, fn, arg, format, mf, fl) ==
  LET parts(r) ==
        [ok |-> r.ok,
         result_real |-> IF r.ok THEN r.result_cos ELSE NoValue,
         result_imag |-> IF r.ok THEN r.result_sin ELSE NoValue,
         invoked |-> r.invoked, mflags |-> r.mflags]
  IN  IF fn = "cexpi" THEN parts(do_mpfr_sincos(b, arg, format, mf, fl))
      ELSE NotInvokedC(mf)

\* fold_const_call_sc: cabs
fold_const_call_sc(b, fn, arg_real, arg_imag, format, mf, fl) ==
  IF fn = "cabs" THEN do_mpfr_arg2(b, arg_real, arg_imag, format, mf, fl)
  ELSE Special(FALSE, NoValue, mf)

MpcFns1 ==
  {"ccos", "ccosh", "csin", "csinh", "ctan", "ctanh", "clog", "csqrt",
   "casin", "cacos", "catan", "casinh", "cacosh", "catanh", "cexp"}

\* fold_const_call_cc with the imaginary part of an infinite cproj always +0.
fold_const_call_cc_cproj_unsigned(b, fn, arg_real, arg_imag, format, mf, fl) ==
  CASE fn \in MpcFns1 -> do_mpc_arg1(b, arg_real, arg_imag, format, mf, fl)
    [] fn = "cproj" ->
         IF real_isinf(arg_real) \/ real_isinf(arg_imag)
         THEN [ok |-> TRUE, result_real |-> dconstinf,
               result_imag |-> dconst0,
               invoked |-> FALSE, mflags |-> mf]
         ELSE [ok |-> TRUE, result_real |-> arg_real,
               result_imag |-> arg_imag, invoked |-> FALSE, mflags |-> mf]
    [] OTHER -> NotInvokedC(mf)

\* fold_const_call_cc
fold_const_call_cc(b, fn, arg_real, arg_imag, format, mf, fl) ==
  CASE fn \in MpcFns1 -> do_mpc_arg1(b, arg_real, arg_imag, format, mf, fl)
    [] fn = "cproj" ->
         IF real_isinf(arg_real) \/ real_isinf(arg_imag)
         THEN [ok |-> TRUE, result_real |-> dconstinf,
               result_imag |-> [dconst0 EXCEPT !.sign = arg_imag.sign],
               invoked |-> FALSE, mflags |-> mf]
         ELSE [ok |-> TRUE, result_real |-> arg_real,
               result_imag |-> arg_imag, invoked |-> FALSE, mflags |-> mf]
    [] OTHER -> NotInvokedC(mf)

\* fold_const_call_ccc
fold_const_call_ccc(b, fn, arg0_real, arg0_imag, arg1_real, arg1_imag, format, mf, fl) ==
  IF fn = "cpow"
  THEN do_mpc_arg2(b, arg0_real, arg0_imag, arg1_real, arg1_imag, format,
                   mf, fl)
  ELSE NotInvokedC(mf)

(***************************************************************************)
(* The calls the model folds.                                              *)
(***************************************************************************)
\* A constant of a format: the normal constants of a decimal format carry
\* the decimal bit.
InFormat(v, format) ==
  [v EXCEPT !.decimal = (format.b = 10 /\ v.cl = "rvc_normal")]

RealOperands ==
  {RZero(FALSE), RZero(TRUE), RNum(FALSE, 1, 0), RNum(TRUE, 1, 0),
   RNum(FALSE, 1, 1), RNum(TRUE, 1, 1), RNum(FALSE, 1, -1), RNum(FALSE, 3, 0),
   RInf(FALSE), RInf(TRUE), RNaN(FALSE, FALSE, 0), RNaN(FALSE, TRUE, 1)}

FewRealOperands ==
  {RZero(FALSE), RNum(FALSE, 1, 0), RNum(TRUE, 1, 1), RInf(TRUE),
   RNaN(FALSE, FALSE, 0)}

Fns1 ==
  GuardedFns \cup {"cbrt", "sin", "exp"} \cup RoundingFns
  \cup {"logb", "significand", "fabs"}

Calls_ss ==
  {[kind |-> "ss", fn |-> f, fmt |-> F, args |-> <<InFormat(v, F)>>]
     : f \in Fns1, F \in Formats, v \in RealOperands}

Calls_sss ==
  {[kind |-> "sss", fn |-> f, fmt |-> F,
    args |-> <<InFormat(v, F), InFormat(w, F)>>]
     : f \in {"atan2", "hypot", "fmin", "copysign", "drem"}, F \in Formats,
       v \in FewRealOperands, w \in FewRealOperands}

\* Calls of pow.  The bases have an odd part of at most 3 and the exponents
\* are at most 15 in magnitude, which keeps the powers the backend computes
\* within the integers of the checker.  pow has no decimal variant.
PowBases ==
  {RZero(FALSE), RZero(TRUE), RNum(FALSE, 1, 0), RNum(FALSE, 1, 1),
   RNum(TRUE, 1, 1), RNum(FALSE, 3, 0), RNum(FALSE, 3, -1), RNum(FALSE, 1, -1),
   RInf(FALSE), RInf(TRUE), RNaN(FALSE, FALSE, 0), RNaN(FALSE, TRUE, 1)}

PowExponents ==
  {RZero(FALSE), RNum(FALSE, 1, 0), RNum(TRUE, 1, 0), RNum(FALSE, 1, 1),
   RNum(TRUE, 1, 1), RNum(FALSE, 3, 0), RNum(FALSE, 5, 1), RNum(TRUE, 5, 1),
   RNum(FALSE, 1, -1), RNum(TRUE, 3, -1), RInf(FALSE), RNaN(FALSE, FALSE, 0)}

Calls_pow ==
  {[kind |-> "sss", fn |-> "pow", fmt |-> F, args |-> <<v, w>>]
     : F \in {BinaryFormat, TruncatingFormat}, v \in PowBases,
       w \in PowExponents}

Calls_sss_int_real ==
  {[kind |-> "sss_int_real", fn |-> f, fmt |-> F,
    args |-> <<InFormat(v, F)>>, n |-> n]
     : f \in {"jn", "yn"}, F \in Formats, n \in {0, 2},
       v \in FewRealOperands \cup {RZero(TRUE)}}

Calls_ssss ==
  {[kind |-> "ssss", fn |-> f, fmt |-> F,
    args |-> <<InFormat(u, F), InFormat(v, F), InFormat(w, F)>>]
     : f \in {"fma", "fnms"}, F \in Formats, u \in FewRealOperands,
       v \in {RNum(FALSE, 1, 0), RInf(FALSE)},
       w \in {RNum(FALSE, 1, 0), RNaN(FALSE, FALSE, 0)}}

Calls_cs ==
  {[kind |-> "cs", fn |-> "cexpi", fmt |-> F, args |-> <<InFormat(v, F)>>]
     : F \in Formats, v \in FewRealOperands}

Calls_sc ==
  {[kind |-> "sc", fn |-> "cabs", fmt |-> F,
    args |-> <<InFormat(v, F), InFormat(w, F)>>]
     : F \in Formats, v \in FewRealOperands, w \in FewRealOperands}

Calls_cc ==
  {[kind |-> "cc", fn |-> f, fmt |-> F,
    args |-> <<InFormat(v, F), InFormat(w, F)>>]
     : f \in {"ccos", "csqrt", "cproj", "conj"}, F \in Formats,
       v \in FewRealOperands, w \in FewRealOperands \cup {RZero(TRUE)}}

\* Calls of cpow.  A normal operand of a decimal format is left out: the
\* conversion of such an operand to the backend (mpfr_from_real) stops the
\* compiler before the backend function is reached.
Calls_ccc ==
  {c \in
     {[kind |-> "ccc", fn |-> "cpow", fmt |-> F,
       args |-> <<InFormat(u, F), InFormat(v, F), InFormat(w, F),
                  InFormat(x, F)>>]
        : F \in Formats, u \in {RZero(FALSE), RNum(FALSE, 1, 0), RInf(FALSE)},
          v \in {RZero(FALSE), RNaN(FALSE, FALSE, 0)},
          w \in {RZero(TRUE), RNum(TRUE, 1, 1), RInf(TRUE)},
          x \in {RZero(FALSE), RNum(FALSE, 1, 0)}}
     : c.fmt.b = 2 \/ \A i \in 1..4 : c.args[i].cl # "rvc_normal"}

(***************************************************************************)
(* Real, integer -> real functions: ldexp, scalbn, scalbln and powi.       *)
(***************************************************************************)
\* real_ldexp (r, op0, exp)
real_ldexp(op0, exp) ==
  CASE op0.cl \in {"rvc_zero", "rvc_inf"} -> op0
    [] op0.cl = "rvc_nan" -> [op0 EXCEPT !.signalling = FALSE]
    [] OTHER ->
         IF exp + op0.uexp > MaxExp THEN RInf(op0.sign)
         ELSE IF exp + op0.uexp < -MaxExp THEN RZero(op0.sign)
         ELSE [op0 EXCEPT !.uexp = exp + op0.uexp]

\* real_value_truncate (fmt, a)
real_value_truncate(format, a) == real_convert(format, a)

\* max_exp_adj of fold_const_builtin_load_exponent
max_exp_adj(format) == 2 * Abs(format.emax - format.emin)

\* fold_const_builtin_load_exponent without the cap on the adjustment.
fold_const_builtin_load_exponent_uncapped(arg0, arg1, format, fl) ==
  LET fin(initial_result) ==
        LET cmp(result) ==
              [ok |-> real_equal(initial_result, result), result |-> result]
        IN  IF real_isinf(initial_result)
            THEN [ok |-> FALSE, result |-> NoValue]
            ELSE cmp(real_value_truncate(format, initial_result))
  IN  CASE /\ ~fl.unsafe_math_optimizations
           /\ fl.signaling_nans
           /\ real_issignaling_nan(arg0) -> [ok |-> FALSE, result |-> NoValue]
        [] OTHER -> fin(real_ldexp(arg0, arg1))

\* fold_const_builtin_load_exponent without the test for an infinite result.
fold_const_builtin_load_exponent_overflow_kept(arg0, arg1, format, fl) ==
  LET fin(initial_result) ==
        LET cmp(result) ==
              [ok |-> real_equal(initial_result, result), result |-> result]
        IN  cmp(real_value_truncate(format, initial_result))
  IN  CASE arg1 <= -max_exp_adj(format) \/ arg1 >= max_exp_adj(format) ->
             [ok |-> FALSE, result |-> NoValue]
        [] /\ ~fl.unsafe_math_optimizations
           /\ fl.signaling_nans
           /\ real_issignaling_nan(arg0) -> [ok |-> FALSE, result |-> NoValue]
        [] OTHER -> fin(real_ldexp(arg0, arg1))

\* fold_const_builtin_load_exponent
fold_const_builtin_load_exponent(arg0, arg1, format, fl) ==
  LET fin(initial_result) ==
        LET cmp(result) ==
              [ok |-> real_equal(initial_result, result), result |-> result]
        IN  IF real_isinf(initial_result)
            THEN [ok |-> FALSE, result |-> NoValue]
            ELSE cmp(real_value_truncate(format, initial_result))
  IN  CASE arg1 <= -max_exp_adj(format) \/ arg1 >= max_exp_adj(format) ->
             [ok |-> FALSE, result |-> NoValue]
        [] /\ ~fl.unsafe_math_optimizations
           /\ fl.signaling_nans
           /\ real_issignaling_nan(arg0) -> [ok |-> FALSE, result |-> NoValue]
        [] OTHER -> fin(real_ldexp(arg0, arg1))

\* fold_const_call_sss (real, integer)
fold_const_call_sss_real_int(fn, arg0, arg1, format, mf, fl) ==
  CASE fn = "ldexp" ->
         FromHandler(fold_const_builtin_load_exponent(arg0, arg1, format, fl),
                     mf)
    [] fn \in {"scalbn", "scalbln"} ->
         IF format.b = 2
         THEN FromHandler(fold_const_builtin_load_exponent(arg0, arg1, format,
                                                           fl), mf)
         ELSE Special(FALSE, NoValue, mf)
    [] fn = "powi" ->
         IF /\ ~fl.unsafe_math_optimizations
            /\ fl.signaling_nans
            /\ real_issignaling_nan(arg0)
         THEN Special(FALSE, NoValue, mf)
         ELSE Special(TRUE, real_powi(format, arg0, arg1).val, mf)
    [] OTHER -> Special(FALSE, NoValue, mf)

\* The adjustments tried for a format: around zero, around the largest
\* exponent of the format, and around the cap.
Adjustments(format) ==
  {0, 1, -1, -5, format.emax - 1, format.emax}
  \cup {s * (max_exp_adj(format) + d) : s \in {-1, 1}, d \in {-1, 0, 1}}

Calls_ldexp ==
  {[kind |-> "sss_real_int", fn |-> f, fmt |-> F,
    args |-> <<InFormat(v, F)>>, n |-> n]
     : f \in {"ldexp", "scalbn", "scalbln"}, F \in Formats,
       v \in RealOperands, n \in UNION {Adjustments(G) : G \in Formats}}

\* powi has no decimal variant.
Calls_powi ==
  {[kind |-> "sss_real_int", fn |-> "powi", fmt |-> F, args |-> <<v>>,
    n |-> n]
     : F \in {BinaryFormat, TruncatingFormat}, v \in PowBases,
       n \in {-1, 0, 2, 3}}

\* A composite format (its NaNs have fewer bits than its numbers) and a
\* format without infinities.
CompositeFormat == [BinaryFormat EXCEPT !.pnan = BinaryFormat.p - 1]
NoInfFormat == [BinaryFormat EXCEPT !.has_inf = FALSE]

\* The largest finite value, the smallest normal value and the smallest
\* denormal of a format.
LargestOf(F) == RNum(FALSE, 2 ^ F.p - 1, F.emax - F.p)
SmallestNormalOf(F) == RNum(FALSE, 1, F.emin - 1)
SmallestDenormalOf(F) == RNum(FALSE, 1, F.emin - F.p)

\* Calls of nextafter and nexttoward; the second operand of nexttoward is a
\* long double and may have bits the format has not.
Calls_nextafter ==
  {[kind |-> "sss", fn |-> f, fmt |-> F,
    args |-> <<InFormat(v, F), InFormat(w, F)>>]
     : f \in {"nextafter", "nexttoward"},
       F \in Formats \cup {CompositeFormat, NoInfFormat},
       v \in {RZero(FALSE), RZero(TRUE), RNum(FALSE, 1, 0), RNum(TRUE, 1, 0),
              RNum(FALSE, 7, -2), LargestOf(BinaryFormat),
              SmallestNormalOf(BinaryFormat),
              SmallestDenormalOf(BinaryFormat), RInf(FALSE), RInf(TRUE),
              RNaN(FALSE, FALSE, 0), RNaN(FALSE, TRUE, 1)},
       w \in {RZero(FALSE), RNum(FALSE, 1, 0), RNum(TRUE, 1, 1),
              RNum(FALSE, 9, -3), RInf(FALSE), RInf(TRUE),
              RNaN(FALSE, FALSE, 0), RNaN(FALSE, TRUE, 1)}}

(***************************************************************************)
(* Debug-mode iterator bookkeeping                                         *)
(* (libstdc++-v3/include/debug/safe_base.h): a sequence, the iterators     *)
(* that may reference it, and their version numbers.                       *)
(***************************************************************************)
\* Width of unsigned int, scaled down.
VersionBits == 3

UINT_MAX == 2 ^ VersionBits - 1

\* The iterators of the model.
Iterators == {"i1", "i2"}

\* _Safe_sequence_base (): version 1 (the lists of iterators are not kept).
_Safe_sequence_base == [_M_version |-> 1]

\* _Safe_iterator_base (): singular, attached to no sequence.
_Safe_iterator_base == [_M_sequence |-> "NULL", _M_version |-> 0]

\* _M_invalidate_all with the counter left at 0 when it wraps.
_M_invalidate_all_wrapping(seq) ==
  [seq EXCEPT !._M_version = (seq._M_version + 1) % (UINT_MAX + 1)]

\* _Safe_sequence_base::_M_invalidate_all
_M_invalidate_all(seq) ==
  LET incremented == (seq._M_version + 1) % (UINT_MAX + 1)
  IN  [seq EXCEPT !._M_version = IF incremented = 0 THEN 1 ELSE incremented]

\* _Safe_iterator_base::_M_invalidate
_M_invalidate(it) == [it EXCEPT !._M_version = 0]

\* _Safe_iterator_base::_M_attach (seq, constant) for a sequence that is not
\* null: the iterator takes the sequence's version.
_M_attach(it, seq) == [_M_sequence |-> "seq", _M_version |-> seq._M_version]

\* _Safe_iterator_base::_M_detach: _M_reset leaves the iterator singular.
_M_detach(it) == [_M_sequence |-> "NULL", _M_version |-> 0]

\* _Safe_iterator_base::_M_singular
_M_singular(it, seq) ==
  it._M_sequence = "NULL" \/ it._M_version # seq._M_version

\* What the program does not record of its past: the iterators that
\* _M_invalidate was called on, whether the version counter has wrapped, and
\* the backend's flags as earlier folds left them when the current one began,
\* the events of the working values of the last evaluator call, and the
\* working values that are allocated.
NoHistory ==
  [invalidated |-> {}, wrapped |-> FALSE, stale |-> MpfrFlagsClear,
   events |-> <<>>, allocated |-> {}]

\* No container is in use while a call is folded.
NoContainer ==
  /\ sequence = _Safe_sequence_base
  /\ iterators = [i \in Iterators |-> _Safe_iterator_base]
  /\ history = NoHistory

(***************************************************************************)
(* State: the call, the flags, and what the fold leaves.                   *)
(***************************************************************************)
NotFolded == [folded |-> FALSE, re |-> NoValue, im |-> NoValue, powi |-> FALSE]

NoBackend == [invoked |-> FALSE]

InitWith(calls) ==
  /\ pc = "call"
  /\ flags \in FlagSettings
  /\ call \in calls
  /\ mpfr_flags = MpfrFlagsClear
  /\ bk = NoBackend
  /\ out = NotFolded
  /\ NoContainer

\* The fold returns a real constant (build_real) or NULL_TREE.
ReturnReal(r, b) ==
  /\ pc' = "done"
  /\ out' = [folded |-> r.ok, re |-> IF r.ok THEN r.result ELSE NoValue,
             im |-> NoValue, powi |-> FALSE]
  /\ bk' = IF r.invoked THEN [invoked |-> TRUE, o |-> b] ELSE NoBackend
  /\ mpfr_flags' = r.mflags
  /\ UNCHANGED <<flags, call, sequence, iterators, history>>

\* As ReturnReal, for the dispatcher that has pow: the result records whether
\* it is the integer-power fallback's.
ReturnRealReal(r, b) ==
  /\ pc' = "done"
  /\ out' = [folded |-> r.ok, re |-> IF r.ok THEN r.result ELSE NoValue,
             im |-> NoValue, powi |-> r.powi]
  /\ bk' = IF r.invoked THEN [invoked |-> TRUE, o |-> b] ELSE NoBackend
  /\ mpfr_flags' = r.mflags
  /\ UNCHANGED <<flags, call, sequence, iterators, history>>

\* What the backend function of a two-operand real call may return.
Outcomes_sss(c) ==
  IF c.fn # "pow" THEN GenericOutcomes(c.fmt)
  ELSE IF real_isfinite(c.args[1]) /\ real_isfinite(c.args[2])
  THEN mpfr_pow(c.args[1], c.args[2], c.fmt)
  ELSE {Outcome(MNaN, FALSE, FALSE, FALSE)}

\* The fold returns a complex constant (build_complex) or NULL_TREE.
ReturnComplex(r, b) ==
  /\ pc' = "done"
  /\ out' = [folded |-> r.ok,
             re |-> IF r.ok THEN r.result_real ELSE NoValue,
             im |-> IF r.ok THEN r.result_imag ELSE NoValue,
             powi |-> FALSE]
  /\ bk' = IF r.invoked THEN [invoked |-> TRUE, o |-> b] ELSE NoBackend
  /\ mpfr_flags' = r.mflags
  /\ UNCHANGED <<flags, call, sequence, iterators, history>>

\* fold_const_call_1 (fn, type, arg): real -> real
FoldRealToReal ==
  /\ pc = "call" /\ call.kind = "ss"
  /\ \E b \in GenericOutcomes(call.fmt) :
       \E r \in {fold_const_call_ss(b, call.fn, call.args[1], call.fmt,
                                     mpfr_flags, flags)} :
         ReturnReal(r, b)

\* fold_const_call_1 (fn, type, arg): real -> complex
FoldRealToComplex ==
  /\ pc = "call" /\ call.kind = "cs"
  /\ \E b \in SinCosOutcomes(call.fmt) :
       \E r \in {fold_const_call_cs(b, call.fn, call.args[1], call.fmt,
                                        mpfr_flags, flags)} :
         ReturnComplex(r, b)

\* fold_const_call_1 (fn, type, arg): complex -> real
FoldComplexToReal ==
  /\ pc = "call" /\ call.kind = "sc"
  /\ \E b \in GenericOutcomes(call.fmt) :
       \E r \in {fold_const_call_sc(b, call.fn, call.args[1], call.args[2],
                                     call.fmt, mpfr_flags, flags)} :
         ReturnReal(r, b)

\* fold_const_call_1 (fn, type, arg): complex -> complex
FoldComplexToComplex ==
  /\ pc = "call" /\ call.kind = "cc"
  /\ \E b \in ComplexOutcomes(call.fmt) :
       \E r \in {fold_const_call_cc(b, call.fn, call.args[1],
                                        call.args[2], call.fmt, mpfr_flags,
                                        flags)} :
         ReturnComplex(r, b)

\* fold_const_call_1 (fn, type, arg0, arg1): real, real -> real
FoldRealReal ==
  /\ pc = "call" /\ call.kind = "sss"
  /\ \E b \in Outcomes_sss(call) :
       \E r \in {fold_const_call_sss(b, call.fn, call.args[1], call.args[2],
                                      call.fmt, mpfr_flags, flags)} :
         ReturnRealReal(r, b)

\* fold_const_call_1 (fn, type, arg0, arg1): integer, real -> real
FoldIntReal ==
  /\ pc = "call" /\ call.kind = "sss_int_real"
  /\ \E b \in GenericOutcomes(call.fmt) :
       \E r \in {fold_const_call_sss_int_real(b, call.fn, call.n,
                                               call.args[1], call.fmt,
                                               mpfr_flags, flags)} :
         ReturnReal(r, b)

\* fold_const_call_1 (fn, type, arg0, arg1): complex, complex -> complex
FoldComplexComplex ==
  /\ pc = "call" /\ call.kind = "ccc"
  /\ \E b \in ComplexOutcomes(call.fmt) :
       \E r \in {fold_const_call_ccc(b, call.fn, call.args[1],
                                         call.args[2], call.args[3],
                                         call.args[4], call.fmt, mpfr_flags,
                                         flags)} :
         ReturnComplex(r, b)

\* fold_const_call_1 (fn, type, arg0, arg1, arg2): real, real, real -> real
FoldRealRealReal ==
  /\ pc = "call" /\ call.kind = "ssss"
  /\ \E b \in GenericOutcomes(call.fmt) :
       \E r \in {fold_const_call_ssss(b, call.fn, call.args[1],
                                       call.args[2], call.args[3], call.fmt,
                                       mpfr_flags, flags)} :
         ReturnReal(r, b)

\* fold_const_call_1 (fn, type, arg0, arg1): real, integer -> real
FoldRealInt ==
  /\ pc = "call" /\ call.kind = "sss_real_int"
  /\ \E r \in {fold_const_call_sss_real_int(call.fn, call.args[1],
                                              call.n, call.fmt,
                                              mpfr_flags, flags)} :
       ReturnReal(r, NoValue)

Init ==
  InitWith(Calls_ss \cup Calls_sss \cup Calls_pow \cup Calls_sss_int_real \cup Calls_ssss
           \cup Calls_cs \cup Calls_sc \cup Calls_cc \cup Calls_ccc
           \cup Calls_ldexp \cup Calls_powi \cup Calls_nextafter)

Next ==
  \/ FoldRealToReal
  \/ FoldRealToComplex
  \/ FoldComplexToReal
  \/ FoldComplexToComplex
  \/ FoldRealReal
  \/ FoldIntReal
  \/ FoldRealInt
  \/ FoldComplexComplex
  \/ FoldRealRealReal

Spec == Init /\ [][Next]_vars

(***************************************************************************)
(* Overflow-checked integer arithmetic: the arith_overflow case of           *)
(* fold_const_call (fn, type, arg0, arg1).                                 *)
(***************************************************************************)
\* The widest precision of the integer types whose values are all tried.
MaxPrecision == 4

IntType(precision, unsigned) ==
  [code |-> "INTEGER_TYPE", precision |-> precision, unsigned |-> unsigned]

ComplexType(elt) == [code |-> "COMPLEX_TYPE", elt |-> elt]

\* TYPE_MIN_VALUE, TYPE_MAX_VALUE
TypeMin(T) == IF T.unsigned THEN 0 ELSE -(2 ^ (T.precision - 1))
TypeMax(T) ==
  IF T.unsigned THEN 2 ^ T.precision - 1 ELSE 2 ^ (T.precision - 1) - 1

\* wi::fits_to_tree_p
fits_to_tree_p(v, T) == TypeMin(T) <= v /\ v <= TypeMax(T)

\* The value of type T with the low TYPE_PRECISION (T) bits of v.
Truncate(v, T) ==
  LET signed(w) ==
        IF ~T.unsigned /\ w >= 2 ^ (T.precision - 1)
        THEN w - 2 ^ T.precision ELSE w
  IN  signed(v % (2 ^ T.precision))

\* An INTEGER_CST.
IntCst(T, v, overflow) ==
  [code |-> "INTEGER_CST", type |-> T, val |-> v, overflow |-> overflow]

\* force_fit_type (type, cst, overflowable, overflowed) with overflowable 1.
force_fit_type(T, v, overflowed) ==
  IntCst(T, Truncate(v, T),
         /\ (overflowed \/ ~fits_to_tree_p(v, T))
         /\ (overflowed \/ ~T.unsigned))

\* fold_convert (type, arg) of an INTEGER_CST to an integer type.
fold_convert(T, arg) == force_fit_type(T, arg.val, arg.overflow)

\* The infinite-precision result of the operation.
Exact(subcode, a, b) ==
  CASE subcode = "PLUS_EXPR" -> a + b
    [] subcode = "MINUS_EXPR" -> a - b
    [] OTHER -> a * b

\* int_const_binop (code, arg1, arg2) on INTEGER_CSTs of one type.
int_const_binop(subcode, arg1, arg2) ==
  LET T == arg1.type
      wide(res) ==
        force_fit_type(T, res,
                       \/ (~T.unsigned /\ ~fits_to_tree_p(res, T))
                       \/ arg1.overflow
                       \/ arg2.overflow)
  IN  wide(Exact(subcode, arg1.val, arg2.val))

\* arith_overflowed_p (code, type, arg0, arg1): the operation on the
\* operands' own values does not fit the type.
arith_overflowed_p(subcode, T, arg0, arg1) ==
  ~fits_to_tree_p(Exact(subcode, arg0.val, arg1.val), T)

\* drop_tree_overflow
drop_tree_overflow(t) == [t EXCEPT !.overflow = FALSE]

\* build_int_cst (type, value)
build_int_cst(T, v) == IntCst(T, Truncate(v, T), FALSE)

\* integer_cst_p
integer_cst_p(t) == t.code = "INTEGER_CST" /\ ~t.overflow

NULL_TREE == [folded |-> FALSE, re |-> NoValue, im |-> NoValue, powi |-> FALSE]

\* A scalar constant, and build_complex (type, real, imag).
Scalar(r) == [folded |-> TRUE, re |-> r, im |-> NoValue, powi |-> FALSE]
build_complex(type, real, imag) ==
  [folded |-> TRUE, re |-> real, im |-> imag, powi |-> FALSE]

\* The case labels that lead to arith_overflow.
subcode_of(fn) ==
  CASE fn \in {"UBSAN_CHECK_ADD", "ADD_OVERFLOW"} -> "PLUS_EXPR"
    [] fn \in {"UBSAN_CHECK_SUB", "SUB_OVERFLOW"} -> "MINUS_EXPR"
    [] OTHER -> "MULT_EXPR"

\* arith_overflow with the pair's flag taken from the overflow bit of the
\* wrapped result.
arith_overflow_flag_of_result(subcode, type, arg0, arg1) ==
  LET itype == IF type.code = "COMPLEX_TYPE" THEN type.elt ELSE type
      built(r, ovf) ==
        IF itype = type
        THEN IF ovf THEN NULL_TREE ELSE Scalar(drop_tree_overflow(r))
        ELSE build_complex(type, drop_tree_overflow(r),
                           build_int_cst(itype, IF r.overflow THEN 1 ELSE 0))
  IN  IF integer_cst_p(arg0) /\ integer_cst_p(arg1)
      THEN built(int_const_binop(subcode, fold_convert(itype, arg0),
                                 fold_convert(itype, arg1)),
                 arith_overflowed_p(subcode, itype, arg0, arg1))
      ELSE NULL_TREE

\* arith_overflow returning the wrapped result of a scalar type whether or
\* not the operation overflowed.
arith_overflow_wrapped(subcode, type, arg0, arg1) ==
  LET itype == IF type.code = "COMPLEX_TYPE" THEN type.elt ELSE type
      built(r, ovf) ==
        IF itype = type
        THEN Scalar(drop_tree_overflow(r))
        ELSE build_complex(type, drop_tree_overflow(r),
                           build_int_cst(itype, IF ovf THEN 1 ELSE 0))
  IN  IF integer_cst_p(arg0) /\ integer_cst_p(arg1)
      THEN built(int_const_binop(subcode, fold_convert(itype, arg0),
                                 fold_convert(itype, arg1)),
                 arith_overflowed_p(subcode, itype, arg0, arg1))
      ELSE NULL_TREE

\* arith_overflow: int_const_binop on INTEGER_CSTs of an integer type always
\* gives an INTEGER_CST, so the test of r does not fail.
arith_overflow(subcode, type, arg0, arg1) ==
  LET itype == IF type.code = "COMPLEX_TYPE" THEN type.elt ELSE type
      built(r, ovf) ==
        IF itype = type
        THEN IF ovf THEN NULL_TREE ELSE Scalar(drop_tree_overflow(r))
        ELSE build_complex(type, drop_tree_overflow(r),
                           build_int_cst(itype, IF ovf THEN 1 ELSE 0))
  IN  IF integer_cst_p(arg0) /\ integer_cst_p(arg1)
      THEN built(int_const_binop(subcode, fold_convert(itype, arg0),
                                 fold_convert(itype, arg1)),
                 arith_overflowed_p(subcode, itype, arg0, arg1))
      ELSE NULL_TREE

\* The UADDC/USUBC case with the carry taken from the second step alone.
fold_const_call_uaddc_last_step_only(fn, type, arg0, arg1, arg2) ==
  LET itype == type.elt
      subcode == IF fn = "UADDC" THEN "PLUS_EXPR" ELSE "MINUS_EXPR"
      r == int_const_binop(subcode, fold_convert(itype, arg0),
                           fold_convert(itype, arg1))
      r2 == int_const_binop(subcode, r, fold_convert(itype, arg2))
      ovf == arith_overflowed_p(subcode, itype, r, arg2)
  IN  IF integer_cst_p(arg0) /\ integer_cst_p(arg1) /\ integer_cst_p(arg2)
      THEN build_complex(type,
                         IF r2.overflow THEN drop_tree_overflow(r2) ELSE r2,
                         build_int_cst(itype, IF ovf THEN 1 ELSE 0))
      ELSE NULL_TREE

\* fold_const_call (fn, type, arg0, arg1, arg2): cases CFN_UADDC and
\* CFN_USUBC.  int_const_binop on INTEGER_CSTs of an integer type always
\* gives an INTEGER_CST, so the tests of r and r2 do not fail.
fold_const_call_uaddc(fn, type, arg0, arg1, arg2) ==
  LET itype == type.elt
      subcode == IF fn = "UADDC" THEN "PLUS_EXPR" ELSE "MINUS_EXPR"
      r == int_const_binop(subcode, fold_convert(itype, arg0),
                           fold_convert(itype, arg1))
      ovf1 == arith_overflowed_p(subcode, itype, arg0, arg1)
      r2 == int_const_binop(subcode, r, fold_convert(itype, arg2))
      ovf2 == arith_overflowed_p(subcode, itype, r, arg2)
  IN  IF integer_cst_p(arg0) /\ integer_cst_p(arg1) /\ integer_cst_p(arg2)
      THEN build_complex(type,
                         IF r2.overflow THEN drop_tree_overflow(r2) ELSE r2,
                         build_int_cst(itype, IF ovf1 \/ ovf2 THEN 1 ELSE 0))
      ELSE NULL_TREE

\* The integer types whose values are all tried, and the 8-bit unsigned type.
SmallTypes ==
  {IntType(p, u) : p \in {MaxPrecision - 1, MaxPrecision}, u \in BOOLEAN}

ByteType == IntType(8, TRUE)

\* The INTEGER_CSTs of a type: every value, and one with TREE_OVERFLOW set.
Csts(T) ==
  {IntCst(T, v, FALSE) : v \in TypeMin(T)..TypeMax(T)}
  \cup {IntCst(T, 0, TRUE)}

\* __builtin_{add,sub,mul}_overflow: operands of any types, the result a
\* pair of the element type.
Calls_overflow ==
  {[kind |-> "arith_overflow", fn |-> f, type |-> ComplexType(T),
    args |-> <<a, b>>]
     : f \in {"ADD_OVERFLOW", "SUB_OVERFLOW", "MUL_OVERFLOW"},
       T \in SmallTypes,
       a \in UNION {Csts(A) : A \in SmallTypes},
       b \in UNION {Csts(B) : B \in SmallTypes}}
  \cup
  {[kind |-> "arith_overflow", fn |-> f, type |-> ComplexType(ByteType),
    args |-> <<IntCst(ByteType, v, FALSE), IntCst(ByteType, w, FALSE)>>]
     : f \in {"ADD_OVERFLOW", "SUB_OVERFLOW", "MUL_OVERFLOW"},
       v \in {10, 200, 255}, w \in {0, 20, 100}}

\* UBSAN_CHECK_{ADD,SUB,MUL}: operands and result of one signed type.
Calls_ubsan ==
  UNION {{[kind |-> "arith_overflow", fn |-> f, type |-> T, args |-> <<a, b>>]
            : f \in {"UBSAN_CHECK_ADD", "UBSAN_CHECK_SUB", "UBSAN_CHECK_MUL"},
              a \in Csts(T), b \in Csts(T)}
           : T \in {S \in SmallTypes : ~S.unsigned}}

\* fold_const_call (fn, type, arg0, arg1): the overflow-checked operations.
FoldArithOverflow ==
  /\ pc = "call" /\ call.kind = "arith_overflow"
  /\ pc' = "done"
  /\ out' = arith_overflow(subcode_of(call.fn), call.type, call.args[1],
                           call.args[2])
  /\ UNCHANGED <<flags, call, mpfr_flags, bk, sequence, iterators, history>>

\* UADDC and USUBC: three operands of the unsigned element type.
Calls_carry ==
  UNION {{[kind |-> "carry", fn |-> f, type |-> ComplexType(T),
           args |-> <<a, b, c>>]
            : f \in {"UADDC", "USUBC"},
              a \in Csts(T), b \in Csts(T), c \in Csts(T)}
           : T \in {S \in SmallTypes : S.unsigned}}

\* fold_const_call (fn, type, arg0, arg1, arg2): add and subtract with carry.
FoldCarry ==
  /\ pc = "call" /\ call.kind = "carry"
  /\ pc' = "done"
  /\ out' = fold_const_call_uaddc(call.fn, call.type, call.args[1],
                                  call.args[2], call.args[3])
  /\ UNCHANGED <<flags, call, mpfr_flags, bk, sequence, iterators, history>>

InitOvf ==
  /\ pc = "call"
  /\ flags = [trapping_math |-> TRUE, rounding_math |-> FALSE,
              errno_math |-> TRUE, signaling_nans |-> FALSE,
              unsafe_math_optimizations |-> FALSE]
  /\ call \in Calls_overflow \cup Calls_ubsan \cup Calls_carry
  /\ mpfr_flags = MpfrFlagsClear
  /\ bk = NoBackend
  /\ out = NotFolded
  /\ NoContainer

NextOvf ==
  \/ FoldArithOverflow
  \/ FoldCarry

SpecOvf == InitOvf /\ [][NextOvf]_vars

(***************************************************************************)
(* String and memory functions: the cases of fold_const_call that read the *)
(* bytes of constant operands.                                             *)
(***************************************************************************)
\* The longest byte representation of an operand.
MaxBytes == 2

\* The bytes operands are made of (as unsigned char).
Bytes == {0, 1, 200}

integer_type_node == IntType(16, FALSE)
size_type_node == IntType(16, TRUE)
char_type_node == IntType(8, TRUE)
ptr_type_node == [code |-> "POINTER_TYPE", precision |-> 16, unsigned |-> TRUE]

\* A pointer operand: whether evaluating it has a side effect, and the bytes
\* of the constant it points to when they are known.
PtrTree(side_effects, known, bytes) ==
  [code |-> "ADDR_EXPR", side_effects |-> side_effects, known |-> known,
   bytes |-> bytes]

\* An operand that is not a constant.
NonConstant(side_effects) ==
  [code |-> "SSA_NAME", side_effects |-> side_effects]

TREE_SIDE_EFFECTS(t) == t.code # "INTEGER_CST" /\ t.side_effects

TREE_TYPE(t) == t.type

types_compatible_p(T, U) == T = U

tree_fits_uhwi_p(t) == t.val >= 0

tree_to_uhwi(t) == t.val

\* size_t_cst_p
size_t_cst_p(t) ==
  /\ t.code = "INTEGER_CST"
  /\ types_compatible_p(size_type_node, TREE_TYPE(t))
  /\ integer_cst_p(t)
  /\ tree_fits_uhwi_p(t)

\* No string (a null pointer from c_getstr, getbyterep, memchr).
NullPtr == [ok |-> FALSE]

\* getbyterep (arg, &size): the bytes of the constant and their number.
getbyterep(arg) ==
  IF arg.code = "ADDR_EXPR" /\ arg.known
  THEN [ok |-> TRUE, p |-> arg.bytes, size |-> Len(arg.bytes)]
  ELSE NullPtr

\* c_getstr (arg): the bytes when they hold a terminating NUL.
c_getstr(arg) ==
  IF /\ arg.code = "ADDR_EXPR" /\ arg.known
     /\ \E i \in 1..Len(arg.bytes) : arg.bytes[i] = 0
  THEN [ok |-> TRUE, p |-> arg.bytes]
  ELSE NullPtr

\* target_char_cst_p (t, &c)
target_char_cst_p(t) == t.code = "INTEGER_CST" /\ ~t.overflow

\* The byte at index i of a buffer (1-based); bytes past the end of a C
\* string are not read, the terminator stands for them.
At(p, i) == IF i <= Len(p) THEN p[i] ELSE 0

\* How the host library reports an inequality: by the difference of the
\* two bytes, or by a unit.
HostResults == {"difference", "unit"}

HostCmp(a, b, h) ==
  CASE a = b -> 0
    [] h = "difference" -> a - b
    [] a < b -> -1
    [] OTHER -> 1

\* The host's strncmp (p0, p1, n), with the reporting h.
strncmp(p0, p1, n, h) ==
  LET stop == {i \in 1..n : At(p0, i) # At(p1, i) \/ At(p0, i) = 0}
      first(S) == CHOOSE i \in S : \A j \in S : i <= j
  IN  IF stop = {} THEN 0
      ELSE HostCmp(At(p0, first(stop)), At(p1, first(stop)), h)

\* The host's strcmp (p0, p1).
strcmp(p0, p1, h) == strncmp(p0, p1, Len(p0) + 1, h)

\* The host's memcmp (p0, p1, n), for n within both buffers.
memcmp(p0, p1, n, h) ==
  LET stop == {i \in 1..n : p0[i] # p1[i]}
      first(S) == CHOOSE i \in S : \A j \in S : i <= j
  IN  IF stop = {} THEN 0
      ELSE HostCmp(p0[first(stop)], p1[first(stop)], h)

\* The host's memchr (p0, c, n): the offset of the first c, or null.
memchr(p0, c, n) ==
  LET hits == {i \in 1..n : p0[i] = c}
  IN  IF hits = {} THEN NullPtr
      ELSE [ok |-> TRUE, off |-> (CHOOSE i \in hits : \A j \in hits : i <= j) - 1]

\* fold_build_pointer_plus_hwi (arg0, off), converted to the result type.
fold_build_pointer_plus_hwi(arg0, off) ==
  [code |-> "POINTER_PLUS_EXPR", base |-> arg0, off |-> off]

\* build_cmp_result: a raw result passed on as it is.
build_cmp_result_raw(type, res) == build_int_cst(type, res)

\* build_cmp_result
build_cmp_result(type, res) ==
  build_int_cst(type, IF res < 0 THEN -1 ELSE IF res > 0 THEN 1 ELSE 0)

\* fold_const_call (fn, type, arg0, arg1): case CFN_BUILT_IN_STRCMP
fold_const_call_strcmp(type, arg0, arg1, h) ==
  IF c_getstr(arg0).ok /\ c_getstr(arg1).ok
  THEN Scalar(build_cmp_result(type, strcmp(c_getstr(arg0).p,
                                            c_getstr(arg1).p, h)))
  ELSE NULL_TREE

\* fold_const_call (fn, type, arg0, arg1, arg2): case CFN_BUILT_IN_STRNCMP
fold_const_call_strncmp(type, arg0, arg1, arg2, h) ==
  CASE ~size_t_cst_p(arg2) -> NULL_TREE
    [] /\ tree_to_uhwi(arg2) = 0
       /\ ~TREE_SIDE_EFFECTS(arg0)
       /\ ~TREE_SIDE_EFFECTS(arg1) -> Scalar(build_int_cst(type, 0))
    [] c_getstr(arg0).ok /\ c_getstr(arg1).ok ->
         Scalar(build_int_cst(type, strncmp(c_getstr(arg0).p,
                                            c_getstr(arg1).p,
                                            tree_to_uhwi(arg2), h)))
    [] OTHER -> NULL_TREE

\* fold_const_call (fn, type, arg0, arg1, arg2): case CFN_BUILT_IN_STRNCASECMP
fold_const_call_strncasecmp(type, arg0, arg1, arg2, h) ==
  CASE ~size_t_cst_p(arg2) -> NULL_TREE
    [] /\ tree_to_uhwi(arg2) = 0
       /\ ~TREE_SIDE_EFFECTS(arg0)
       /\ ~TREE_SIDE_EFFECTS(arg1) -> Scalar(build_int_cst(type, 0))
    [] /\ c_getstr(arg0).ok /\ c_getstr(arg1).ok
       /\ strncmp(c_getstr(arg0).p, c_getstr(arg1).p,
                  tree_to_uhwi(arg2), h) = 0 ->
         Scalar(build_int_cst(type, 0))
    [] OTHER -> NULL_TREE

\* fold_const_call (fn, type, arg0, arg1, arg2): cases CFN_BUILT_IN_BCMP and
\* CFN_BUILT_IN_MEMCMP
fold_const_call_memcmp(type, arg0, arg1, arg2, h) ==
  CASE ~size_t_cst_p(arg2) -> NULL_TREE
    [] /\ tree_to_uhwi(arg2) = 0
       /\ ~TREE_SIDE_EFFECTS(arg0)
       /\ ~TREE_SIDE_EFFECTS(arg1) -> Scalar(build_int_cst(type, 0))
    [] /\ getbyterep(arg0).ok /\ getbyterep(arg1).ok
       /\ tree_to_uhwi(arg2) <= getbyterep(arg0).size
       /\ tree_to_uhwi(arg2) <= getbyterep(arg1).size ->
         Scalar(build_cmp_result(type, memcmp(getbyterep(arg0).p,
                                              getbyterep(arg1).p,
                                              tree_to_uhwi(arg2), h)))
    [] OTHER -> NULL_TREE

\* The MEMCHR case without the test of the bound against the length: bytes
\* past the end of the representation are read as they happen to be.
fold_const_call_memchr_unbounded(type, arg0, arg1, arg2) ==
  CASE ~size_t_cst_p(arg2) -> NULL_TREE
    [] /\ tree_to_uhwi(arg2) = 0
       /\ ~TREE_SIDE_EFFECTS(arg0)
       /\ ~TREE_SIDE_EFFECTS(arg1) -> Scalar(build_int_cst(type, 0))
    [] /\ getbyterep(arg0).ok
       /\ target_char_cst_p(arg1) ->
         LET p0 == [i \in 1..tree_to_uhwi(arg2) |-> At(getbyterep(arg0).p, i)]
             r == memchr(p0, arg1.val, tree_to_uhwi(arg2))
         IN  IF ~r.ok THEN Scalar(build_int_cst(type, 0))
             ELSE Scalar(fold_build_pointer_plus_hwi(arg0, r.off))
    [] OTHER -> NULL_TREE

\* fold_const_call (fn, type, arg0, arg1, arg2): case CFN_BUILT_IN_MEMCHR
fold_const_call_memchr(type, arg0, arg1, arg2) ==
  CASE ~size_t_cst_p(arg2) -> NULL_TREE
    [] /\ tree_to_uhwi(arg2) = 0
       /\ ~TREE_SIDE_EFFECTS(arg0)
       /\ ~TREE_SIDE_EFFECTS(arg1) -> Scalar(build_int_cst(type, 0))
    [] /\ getbyterep(arg0).ok
       /\ tree_to_uhwi(arg2) <= getbyterep(arg0).size
       /\ target_char_cst_p(arg1) ->
         LET r == memchr(getbyterep(arg0).p, arg1.val, tree_to_uhwi(arg2))
         IN  IF ~r.ok THEN Scalar(build_int_cst(type, 0))
             ELSE Scalar(fold_build_pointer_plus_hwi(arg0, r.off))
    [] OTHER -> NULL_TREE

\* The byte representations of the operands.
ByteReps == UNION {[1..n -> Bytes] : n \in 0..MaxBytes}

\* Pointer operands: with or without a side effect, of known or unknown
\* contents.
PtrOperands ==
  {PtrTree(e, TRUE, p) : e \in BOOLEAN, p \in ByteReps}
  \cup {PtrTree(e, FALSE, <<>>) : e \in BOOLEAN}

\* Byte operands of memchr.
CharOperands ==
  {IntCst(char_type_node, c, FALSE) : c \in Bytes}
  \cup {NonConstant(e) : e \in BOOLEAN}

\* Length operands: size_t constants, an overflowed one, a constant of
\* another type, and a length that is not a constant.
LenOperands ==
  {IntCst(size_type_node, n, FALSE) : n \in 0..(MaxBytes + 1)}
  \cup {IntCst(size_type_node, 0, TRUE),
        IntCst(integer_type_node, 0, FALSE),
        NonConstant(FALSE)}

Calls_strcmp ==
  {[kind |-> "str", fn |-> "strcmp", type |-> integer_type_node,
    args |-> <<a, b>>] : a \in PtrOperands, b \in PtrOperands}

Calls_strn ==
  {[kind |-> "str", fn |-> f, type |-> integer_type_node,
    args |-> <<a, b, n>>]
     : f \in {"strncmp", "strncasecmp", "memcmp", "bcmp"},
       a \in PtrOperands, b \in PtrOperands, n \in LenOperands}

Calls_memchr ==
  {[kind |-> "str", fn |-> "memchr", type |-> ptr_type_node,
    args |-> <<a, c, n>>]
     : a \in PtrOperands, c \in CharOperands, n \in LenOperands}

ReturnTree(t) ==
  /\ pc' = "done"
  /\ out' = t
  /\ UNCHANGED <<flags, call, mpfr_flags, bk, sequence, iterators, history>>

FoldStrcmp ==
  /\ pc = "call" /\ call.kind = "str" /\ call.fn = "strcmp"
  /\ \E h \in HostResults :
       ReturnTree(fold_const_call_strcmp(call.type, call.args[1],
                                         call.args[2], h))

FoldStrncmp ==
  /\ pc = "call" /\ call.kind = "str" /\ call.fn = "strncmp"
  /\ \E h \in HostResults :
       ReturnTree(fold_const_call_strncmp(call.type, call.args[1],
                                          call.args[2], call.args[3], h))

FoldStrncasecmp ==
  /\ pc = "call" /\ call.kind = "str" /\ call.fn = "strncasecmp"
  /\ \E h \in HostResults :
       ReturnTree(fold_const_call_strncasecmp(call.type, call.args[1],
                                              call.args[2], call.args[3], h))

FoldMemcmp ==
  /\ pc = "call" /\ call.kind = "str" /\ call.fn \in {"memcmp", "bcmp"}
  /\ \E h \in HostResults :
       ReturnTree(fold_const_call_memcmp(call.type, call.args[1],
                                         call.args[2], call.args[3], h))

FoldMemchr ==
  /\ pc = "call" /\ call.kind = "str" /\ call.fn = "memchr"
  /\ ReturnTree(fold_const_call_memchr(call.type, call.args[1],
                                       call.args[2], call.args[3]))

InitStr ==
  /\ pc = "call"
  /\ flags = [trapping_math |-> TRUE, rounding_math |-> FALSE,
              errno_math |-> TRUE, signaling_nans |-> FALSE,
              unsafe_math_optimizations |-> FALSE]
  /\ call \in Calls_strcmp \cup Calls_strn \cup Calls_memchr
  /\ mpfr_flags = MpfrFlagsClear
  /\ bk = NoBackend
  /\ out = NotFolded
  /\ NoContainer

NextStr ==
  \/ FoldStrcmp
  \/ FoldStrncmp
  \/ FoldStrncasecmp
  \/ FoldMemcmp
  \/ FoldMemchr

SpecStr == InitStr /\ [][NextStr]_vars

(***************************************************************************)
(* Bit-counting functions of integer constants: the wide_int overloads of  *)
(* fold_const_call_ss and fold_const_call_sss.                             *)
(***************************************************************************)
BitIntType(precision, unsigned) ==
  [code |-> "BITINT_TYPE", precision |-> precision, unsigned |-> unsigned]

TYPE_PRECISION(T) == T.precision

\* wi::to_wide (arg): the bits of the constant, as an unsigned number.
to_wide(arg) == arg.val % (2 ^ TYPE_PRECISION(arg.type))

\* wi::clz and wi::ctz of a nonzero number of the given precision.
wi_clz(w, precision) == precision - BitLen(w)
wi_ctz(w) == TrailingZeros(w)

\* CLZ_DEFINED_VALUE_AT_ZERO / CTZ_DEFINED_VALUE_AT_ZERO of the target for
\* the operand's mode: undefined, or defined with a value.
Undefined == [defined |-> FALSE]
DefinedAs(v) == [defined |-> TRUE, value |-> v]

\* wide_int_to_tree (type, wi::shwi (tmp, precision))
wide_int_to_tree(type, tmp) == IntCst(type, Truncate(tmp, type), FALSE)

\* The count of a zero argument without the case of a bit-precise type.
zero_count_target_first(arg_type, at_zero) ==
  IF at_zero.defined THEN at_zero.value ELSE TYPE_PRECISION(arg_type)

\* The count fold_const_call_ss gives clz and ctz of a zero argument.
zero_count(arg_type, at_zero) ==
  IF arg_type.code = "BITINT_TYPE" THEN TYPE_PRECISION(arg_type)
  ELSE IF at_zero.defined THEN at_zero.value
  ELSE TYPE_PRECISION(arg_type)

\* fold_const_call_ss (wide_int *result, fn, arg, precision, arg_type)
fold_const_call_ss_int(fn, arg, arg_type, at_zero) ==
  CASE fn = "clz" ->
         [ok |-> TRUE,
          result |-> IF arg # 0 THEN wi_clz(arg, TYPE_PRECISION(arg_type))
                     ELSE zero_count(arg_type, at_zero)]
    [] fn = "ctz" ->
         [ok |-> TRUE,
          result |-> IF arg # 0 THEN wi_ctz(arg)
                     ELSE zero_count(arg_type, at_zero)]
    [] OTHER -> [ok |-> FALSE, result |-> 0]

\* fold_const_call_sss (wide_int *result, fn, arg0, arg1, precision,
\* arg_type)
fold_const_call_sss_int(fn, arg0, arg1, arg_type) ==
  CASE fn = "clz" ->
         [ok |-> TRUE,
          result |-> IF arg0 # 0 THEN wi_clz(arg0, TYPE_PRECISION(arg_type))
                     ELSE arg1]
    [] fn = "ctz" ->
         [ok |-> TRUE, result |-> IF arg0 # 0 THEN wi_ctz(arg0) ELSE arg1]
    [] OTHER -> [ok |-> FALSE, result |-> 0]

\* fold_const_call_1 (fn, type, arg): the integer operand
fold_const_call_1_int(fn, type, arg, at_zero) ==
  LET fin(r) == IF r.ok THEN Scalar(wide_int_to_tree(type, r.result))
                ELSE NULL_TREE
  IN  IF integer_cst_p(arg)
      THEN fin(fold_const_call_ss_int(fn, to_wide(arg), TREE_TYPE(arg),
                                      at_zero))
      ELSE NULL_TREE

\* fold_const_call_1 (fn, type, arg0, arg1): the integer operands
fold_const_call_1_int_int(fn, type, arg0, arg1) ==
  LET fin(r) == IF r.ok THEN Scalar(wide_int_to_tree(type, r.result))
                ELSE NULL_TREE
  IN  IF integer_cst_p(arg0) /\ integer_cst_p(arg1)
      THEN fin(fold_const_call_sss_int(fn, to_wide(arg0), arg1.val,
                                       TREE_TYPE(arg0)))
      ELSE NULL_TREE

\* The operand types: integer types and bit-precise integer types.
BitTypes ==
  SmallTypes \cup {BitIntType(MaxPrecision - 1, u) : u \in BOOLEAN}

\* What the target may define for a count at zero.
AtZero == {Undefined, DefinedAs(-1), DefinedAs(2 * MaxPrecision)}

Calls_bits1 ==
  UNION {{[kind |-> "bits1", fn |-> f, type |-> integer_type_node,
           args |-> <<a>>, at_zero |-> z]
            : f \in {"clz", "ctz", "abs"}, a \in Csts(T), z \in AtZero}
           : T \in BitTypes}

Calls_bits2 ==
  UNION {{[kind |-> "bits2", fn |-> f, type |-> integer_type_node,
           args |-> <<a, b>>]
            : f \in {"clz", "ctz", "abs"}, a \in Csts(T),
              b \in {IntCst(integer_type_node, v, FALSE) : v \in {-1, 0, 7}}
                    \cup {IntCst(integer_type_node, 0, TRUE)}}
           : T \in BitTypes}

FoldInt ==
  /\ pc = "call" /\ call.kind = "bits1"
  /\ ReturnTree(fold_const_call_1_int(call.fn, call.type, call.args[1],
                                      call.at_zero))

FoldIntInt ==
  /\ pc = "call" /\ call.kind = "bits2"
  /\ ReturnTree(fold_const_call_1_int_int(call.fn, call.type, call.args[1],
                                          call.args[2]))

InitBits ==
  /\ pc = "call"
  /\ flags = [trapping_math |-> TRUE, rounding_math |-> FALSE,
              errno_math |-> TRUE, signaling_nans |-> FALSE,
              unsafe_math_optimizations |-> FALSE]
  /\ call \in Calls_bits1 \cup Calls_bits2
  /\ mpfr_flags = MpfrFlagsClear
  /\ bk = NoBackend
  /\ out = NotFolded
  /\ NoContainer

NextBits == FoldInt \/ FoldIntInt

SpecBits == InitBits /\ [][NextBits]_vars

(***************************************************************************)
(* Operations on the sequence and its iterators.                           *)
(***************************************************************************)
\* No call is being folded.
NoFold == <<pc, flags, call, mpfr_flags, bk, out>>

\* seq._M_invalidate_all ()
InvalidateAll ==
  /\ sequence' = _M_invalidate_all(sequence)
  /\ history' = [history EXCEPT
                   !.wrapped = @ \/ sequence._M_version = UINT_MAX]
  /\ UNCHANGED <<NoFold, iterators>>

\* it._M_invalidate ()
Invalidate ==
  \E i \in Iterators :
    /\ iterators' = [iterators EXCEPT ![i] = _M_invalidate(@)]
    /\ history' = [history EXCEPT !.invalidated = @ \cup {i}]
    /\ UNCHANGED <<NoFold, sequence>>

\* it._M_attach (&seq, constant)
Attach ==
  \E i \in Iterators :
    /\ iterators' = [iterators EXCEPT ![i] = _M_attach(@, sequence)]
    /\ history' = [history EXCEPT !.invalidated = @ \ {i}]
    /\ UNCHANGED <<NoFold, sequence>>

\* it._M_detach ()
Detach ==
  \E i \in Iterators :
    /\ iterators' = [iterators EXCEPT ![i] = _M_detach(@)]
    /\ history' = [history EXCEPT !.invalidated = @ \ {i}]
    /\ UNCHANGED <<NoFold, sequence>>

InitSafe ==
  /\ pc = "idle"
  /\ flags = [trapping_math |-> TRUE, rounding_math |-> FALSE,
              errno_math |-> TRUE, signaling_nans |-> FALSE,
              unsafe_math_optimizations |-> FALSE]
  /\ call = [kind |-> "none"]
  /\ mpfr_flags = MpfrFlagsClear
  /\ bk = NoBackend
  /\ out = NotFolded
  /\ NoContainer

NextSafe ==
  \/ InvalidateAll
  \/ Invalidate
  \/ Attach
  \/ Detach

SpecSafe == InitSafe /\ [][NextSafe]_vars

(***************************************************************************)
(* Vector reductions: fold_const_reduction and fold_const_fold_left.       *)
(***************************************************************************)
\* The largest number of lanes of a vector constant.
MaxLanes == 3

\* The element types of the vectors: a 3-bit unsigned integer type and the
\* binary floating-point format.
lane_type_node == IntType(3, TRUE)

\* A REAL_CST.
RealCst(r) == [code |-> "REAL_CST", val |-> r, overflow |-> FALSE]

\* A VECTOR_CST: its elements, and whether VECTOR_CST_NELTS is a
\* compile-time constant (for a variable-length vector the elements are
\* those of its encoding).
VectorCst(elts, constant_nelts) ==
  [code |-> "VECTOR_CST", elts |-> elts, constant_nelts |-> constant_nelts]

\* VECTOR_CST_ELT (arg, i), with i counted from 0.
VECTOR_CST_ELT(arg, i) == arg.elts[i + 1]

\* VECTOR_CST_NELTS (arg).is_constant (&nelts)
nelts_is_constant(arg) == arg.constant_nelts

\* No tree.
NullTree == [code |-> "NULL_TREE"]

CONSTANT_CLASS_P(t) == t.code \in {"INTEGER_CST", "REAL_CST", "VECTOR_CST"}

\* wi::bit_and, wi::bit_or, wi::bit_xor on w-bit unsigned values.
RECURSIVE wi_bit(_, _, _, _)
wi_bit(code, a, b, w) ==
  LET bit == CASE code = "BIT_AND_EXPR" -> IF a % 2 = 1 /\ b % 2 = 1 THEN 1 ELSE 0
               [] code = "BIT_IOR_EXPR" -> IF a % 2 = 1 \/ b % 2 = 1 THEN 1 ELSE 0
               [] OTHER -> IF a % 2 # b % 2 THEN 1 ELSE 0
  IN  IF w = 0 THEN 0
      ELSE bit + 2 * wi_bit(code, a \div 2, b \div 2, w - 1)

\* const_binop (code, arg1, arg2) on REAL_CSTs for PLUS_EXPR, with
\* -frounding-math off and a format that is not composite.
const_binop_real(arg1, arg2, format, fl) ==
  LET d1 == arg1.val
      d2 == arg2.val
      result == real_convert(format, do_add(d1, d2, FALSE))
  IN  CASE /\ fl.signaling_nans
           /\ (real_issignaling_nan(d1) \/ real_issignaling_nan(d2)) -> NullTree
        [] real_isnan(d1) -> RealCst([d1 EXCEPT !.signalling = FALSE])
        [] real_isnan(d2) -> RealCst([d2 EXCEPT !.signalling = FALSE])
        [] fl.trapping_math /\ real_isnan(result) -> NullTree
        [] /\ fl.trapping_math /\ format.has_inf /\ real_isinf(result)
           /\ ~real_isinf(d1) /\ ~real_isinf(d2) -> NullTree
        [] OTHER ->
             [RealCst(result) EXCEPT !.overflow = arg1.overflow \/ arg2.overflow]

\* const_binop (code, type, arg1, arg2) on two constants of one type.
const_binop(code, type, arg1, arg2, fl) ==
  CASE arg1.code = "REAL_CST" /\ arg2.code = "REAL_CST" ->
         IF code = "PLUS_EXPR" THEN const_binop_real(arg1, arg2, type, fl)
         ELSE NullTree
    [] arg1.code = "INTEGER_CST" /\ arg2.code = "INTEGER_CST" ->
         CASE code = "PLUS_EXPR" -> int_const_binop(code, arg1, arg2)
           [] code = "MAX_EXPR" ->
                IF arg1.val >= arg2.val THEN arg1 ELSE arg2
           [] code = "MIN_EXPR" ->
                IF arg1.val <= arg2.val THEN arg1 ELSE arg2
           [] OTHER ->
                IntCst(arg1.type,
                       wi_bit(code, arg1.val, arg2.val, arg1.type.precision),
                       arg1.overflow \/ arg2.overflow)
    [] OTHER -> NullTree

\* The loops of fold_const_reduction and fold_const_fold_left: lanes i to
\* nelts - 1 are combined into res, one after the other.
RECURSIVE reduction_loop(_, _, _, _, _, _, _)
reduction_loop(code, type, res, arg, i, nelts, fl) ==
  LET next == const_binop(code, type, res, VECTOR_CST_ELT(arg, i), fl)
  IN  IF i >= nelts THEN res
      ELSE IF next = NullTree \/ ~CONSTANT_CLASS_P(next) THEN NullTree
      ELSE reduction_loop(code, type, next, arg, i + 1, nelts, fl)

\* The loop run from the last lane down to the first.
RECURSIVE reduction_loop_reversed(_, _, _, _, _, _, _)
reduction_loop_reversed(code, type, res, arg, i, nelts, fl) ==
  LET next == const_binop(code, type, res,
                          VECTOR_CST_ELT(arg, nelts - 1 - i), fl)
  IN  IF i >= nelts THEN res
      ELSE IF next = NullTree \/ ~CONSTANT_CLASS_P(next) THEN NullTree
      ELSE reduction_loop_reversed(code, type, next, arg, i + 1, nelts, fl)

\* fold_const_reduction, its loop running from the last lane down.
fold_const_reduction_reversed(type, arg, code, fl) ==
  LET nelts == Len(arg.elts)
      res == reduction_loop_reversed(code, type,
                                     VECTOR_CST_ELT(arg, nelts - 1), arg, 1,
                                     nelts, fl)
  IN  IF arg.code # "VECTOR_CST" \/ ~nelts_is_constant(arg) THEN NULL_TREE
      ELSE IF res = NullTree THEN NULL_TREE
      ELSE Scalar(res)

\* fold_const_reduction
fold_const_reduction(type, arg, code, fl) ==
  LET nelts == Len(arg.elts)
      res == reduction_loop(code, type, VECTOR_CST_ELT(arg, 0), arg, 1,
                            nelts, fl)
  IN  IF arg.code # "VECTOR_CST" \/ ~nelts_is_constant(arg) THEN NULL_TREE
      ELSE IF res = NullTree THEN NULL_TREE
      ELSE Scalar(res)

\* fold_const_fold_left
fold_const_fold_left(type, arg0, arg1, code, fl) ==
  LET nelts == Len(arg1.elts)
      res == reduction_loop(code, type, arg0, arg1, 0, nelts, fl)
  IN  IF arg1.code # "VECTOR_CST" THEN NULL_TREE
      ELSE IF ~nelts_is_constant(arg1) THEN NULL_TREE
      ELSE IF res = NullTree THEN NULL_TREE
      ELSE Scalar(res)

\* The tree code of a reduction.
reduction_code(fn) ==
  CASE fn \in {"REDUC_PLUS", "FOLD_LEFT_PLUS"} -> "PLUS_EXPR"
    [] fn = "REDUC_MAX" -> "MAX_EXPR"
    [] fn = "REDUC_MIN" -> "MIN_EXPR"
    [] fn = "REDUC_AND" -> "BIT_AND_EXPR"
    [] fn = "REDUC_IOR" -> "BIT_IOR_EXPR"
    [] OTHER -> "BIT_XOR_EXPR"

\* The lanes: values of the integer type, and reals whose sums round,
\* overflow or are NaNs.
IntLanes == {IntCst(lane_type_node, v, FALSE) : v \in {0, 1, 3, 5, 6}}

RealLanes ==
  {RealCst(InFormat(v, BinaryFormat))
     : v \in {RNum(FALSE, 1, 0), RNum(FALSE, 1, -3), RNum(TRUE, 1, 0),
              RNum(FALSE, 7, 9), RNaN(FALSE, TRUE, 1)}}

\* Vector operands of n lanes over a set of elements, of constant and of
\* variable length, and an operand that is no vector constant.
Vectors(lanes) ==
  UNION {{VectorCst(e, k) : e \in [1..n -> lanes], k \in BOOLEAN}
           : n \in 1..MaxLanes}
  \cup {[code |-> "SSA_NAME", elts |-> <<>>, constant_nelts |-> TRUE]}

Calls_reduc ==
  {[kind |-> "reduc", fn |-> f, type |-> lane_type_node, args |-> <<v>>]
     : f \in {"REDUC_PLUS", "REDUC_MAX", "REDUC_MIN", "REDUC_AND",
              "REDUC_IOR", "REDUC_XOR"},
       v \in Vectors(IntLanes)}
  \cup
  {[kind |-> "reduc", fn |-> "REDUC_PLUS", type |-> BinaryFormat,
    args |-> <<v>>] : v \in Vectors(RealLanes)}

Calls_fold_left ==
  {[kind |-> "fold_left", fn |-> "FOLD_LEFT_PLUS", type |-> BinaryFormat,
    args |-> <<a, v>>] : a \in RealLanes, v \in Vectors(RealLanes)}
  \cup
  {[kind |-> "fold_left", fn |-> "FOLD_LEFT_PLUS", type |-> lane_type_node,
    args |-> <<a, v>>] : a \in IntLanes, v \in Vectors(IntLanes)}

\* fold_const_call (fn, type, arg): the CFN_REDUC_* cases.
FoldReduction ==
  /\ pc = "call" /\ call.kind = "reduc"
  /\ ReturnTree(fold_const_reduction(call.type, call.args[1],
                                     reduction_code(call.fn), flags))

\* fold_const_call (fn, type, arg0, arg1): case CFN_FOLD_LEFT_PLUS.
FoldLeft ==
  /\ pc = "call" /\ call.kind = "fold_left"
  /\ ReturnTree(fold_const_fold_left(call.type, call.args[1], call.args[2],
                                     reduction_code(call.fn), flags))

InitVec ==
  /\ pc = "call"
  /\ flags \in {f \in FlagSettings :
                  /\ ~f.rounding_math /\ f.errno_math
                  /\ ~f.unsafe_math_optimizations}
  /\ call \in Calls_reduc \cup Calls_fold_left
  /\ mpfr_flags = MpfrFlagsClear
  /\ bk = NoBackend
  /\ out = NotFolded
  /\ NoContainer

NextVec ==
  \/ FoldReduction
  \/ FoldLeft

SpecVec == InitVec /\ [][NextVec]_vars

(***************************************************************************)
(* One fold after another: the backend's flags stay as the last fold left  *)
(* them.                                                                   *)
(***************************************************************************)
\* The calls folded in sequence.
SeqCalls ==
  {c \in Calls_ss : c.fn \in {"sin", "sqrt", "floor"}}
  \cup Calls_cs
  \cup {c \in Calls_cc : c.fn = "ccos"}

\* The next call of fold_const_call: nothing of the previous one is kept but
\* the state of the backend.
NextCall ==
  /\ pc = "done"
  /\ pc' = "call"
  /\ call' \in SeqCalls
  /\ bk' = NoBackend
  /\ out' = NotFolded
  /\ history' = [history EXCEPT !.stale = mpfr_flags]
  /\ UNCHANGED <<flags, mpfr_flags, sequence, iterators>>

InitSeq ==
  /\ pc = "call"
  /\ flags \in {f \in FlagSettings :
                  /\ f.trapping_math /\ f.errno_math /\ ~f.signaling_nans
                  /\ ~f.unsafe_math_optimizations}
  /\ call \in SeqCalls
  /\ mpfr_flags = MpfrFlagsClear
  /\ bk = NoBackend
  /\ out = NotFolded
  /\ NoContainer

NextSeq ==
  \/ FoldRealToReal
  \/ FoldRealToComplex
  \/ FoldComplexToComplex
  \/ NextCall

SpecSeq == InitSeq /\ [][NextSeq]_vars

(***************************************************************************)
(* Numeric routing: the three fold_const_call_1 functions choose a family  *)
(* handler from the classes of the operands and the mode of the result.    *)
(* What the chosen handler then does is modelled above; here it may        *)
(* succeed or fail.                                                        *)
(***************************************************************************)
\* Machine modes: an integer mode, float, double and long double, and the
\* complex modes of float and double.
ScalarFloatModes == {"SFmode", "DFmode", "XFmode"}
ComplexModes == {"SCmode", "DCmode"}

SCALAR_INT_MODE_P(mode) == mode = "SImode"
COMPLEX_MODE_P(mode) == mode \in ComplexModes
GET_MODE_INNER(mode) ==
  CASE mode = "SCmode" -> "SFmode"
    [] mode = "DCmode" -> "DFmode"
    [] OTHER -> mode

\* A type by its mode; the integral types are those of the integer mode.
ModeType(mode) == [mode |-> mode]
TYPE_MODE(type) == type.mode
INTEGRAL_TYPE_P(type) == type.mode = "SImode"
long_double_type_node == ModeType("XFmode")

\* Operands: constants with their TREE_OVERFLOW flag, complex constants
\* with their parts, and an operand that is no constant.
NumCst(code, mode, overflow) ==
  [code |-> code, type |-> ModeType(mode), overflow |-> overflow]

ComplexCst(mode, real, imag) ==
  [code |-> "COMPLEX_CST", type |-> ModeType(mode), overflow |-> FALSE,
   real |-> real, imag |-> imag]

TREE_REALPART(t) == t.real
TREE_IMAGPART(t) == t.imag

\* real_cst_p without the test of TREE_OVERFLOW.
real_cst_p_overflow_ignored(t) == t.code = "REAL_CST"

\* real_cst_p
real_cst_p(t) == t.code = "REAL_CST" /\ ~t.overflow

\* complex_cst_p
complex_cst_p(t) == t.code = "COMPLEX_CST"

\* No handler is called.
NoHandler == "none"

\* fold_const_call_1 (fn, type, arg): the handler called.
fold_const_call_1_route(fn, type, arg) ==
  LET mode == TYPE_MODE(type)
      arg_mode == TYPE_MODE(TREE_TYPE(arg))
      inner_mode == GET_MODE_INNER(arg_mode)
  IN  CASE integer_cst_p(arg) ->
             IF SCALAR_INT_MODE_P(mode) THEN "fold_const_call_ss (wide_int)"
             ELSE NoHandler
        [] real_cst_p(arg) ->
             IF mode = arg_mode THEN "fold_const_call_ss"
             ELSE IF COMPLEX_MODE_P(mode) /\ GET_MODE_INNER(mode) = arg_mode
             THEN "fold_const_call_cs"
             ELSE IF INTEGRAL_TYPE_P(type)
             THEN "fold_const_call_ss (real -> int)"
             ELSE NoHandler
        [] complex_cst_p(arg) ->
             IF /\ mode = arg_mode
                /\ real_cst_p(TREE_REALPART(arg))
                /\ real_cst_p(TREE_IMAGPART(arg))
             THEN "fold_const_call_cc"
             ELSE IF /\ mode = inner_mode
                     /\ real_cst_p(TREE_REALPART(arg))
                     /\ real_cst_p(TREE_IMAGPART(arg))
             THEN "fold_const_call_sc"
             ELSE NoHandler
        [] OTHER -> NoHandler

\* fold_const_call_1 (fn, type, arg0, arg1): the handler called.
fold_const_call_1_route2(fn, type, arg0, arg1) ==
  LET mode == TYPE_MODE(type)
      arg0_mode == TYPE_MODE(TREE_TYPE(arg0))
      arg1_mode == TYPE_MODE(TREE_TYPE(arg1))
  IN  CASE integer_cst_p(arg0) /\ integer_cst_p(arg1) ->
             IF SCALAR_INT_MODE_P(mode) THEN "fold_const_call_sss (wide_int)"
             ELSE NoHandler
        [] mode = arg0_mode /\ real_cst_p(arg0) /\ real_cst_p(arg1) ->
             IF arg0_mode = arg1_mode THEN "fold_const_call_sss"
             ELSE IF /\ arg1_mode = TYPE_MODE(long_double_type_node)
                     /\ fn = "nexttoward"
             THEN "fold_const_call_sss"
             ELSE NoHandler
        [] real_cst_p(arg0) /\ integer_cst_p(arg1) ->
             IF mode = arg0_mode THEN "fold_const_call_sss (real, int)"
             ELSE NoHandler
        [] integer_cst_p(arg0) /\ real_cst_p(arg1) ->
             IF mode = arg1_mode THEN "fold_const_call_sss (int, real)"
             ELSE NoHandler
        [] /\ arg0_mode = arg1_mode
           /\ complex_cst_p(arg0) /\ complex_cst_p(arg1) ->
             IF /\ mode = arg0_mode
                /\ real_cst_p(TREE_REALPART(arg0))
                /\ real_cst_p(TREE_IMAGPART(arg0))
                /\ real_cst_p(TREE_REALPART(arg1))
                /\ real_cst_p(TREE_IMAGPART(arg1))
             THEN "fold_const_call_ccc"
             ELSE NoHandler
        [] OTHER -> NoHandler

\* fold_const_call_1 (fn, type, arg0, arg1, arg2): the handler called.
fold_const_call_1_route3(fn, type, arg0, arg1, arg2) ==
  LET mode == TYPE_MODE(type)
      arg0_mode == TYPE_MODE(TREE_TYPE(arg0))
      arg1_mode == TYPE_MODE(TREE_TYPE(arg1))
      arg2_mode == TYPE_MODE(TREE_TYPE(arg2))
  IN  IF /\ arg0_mode = arg1_mode
         /\ arg0_mode = arg2_mode
         /\ real_cst_p(arg0) /\ real_cst_p(arg1) /\ real_cst_p(arg2)
      THEN IF mode = arg0_mode THEN "fold_const_call_ssss" ELSE NoHandler
      ELSE NoHandler

\* The operands routed: integer and real constants with and without
\* TREE_OVERFLOW, complex constants of real and of integer parts, and an
\* operand that is no constant.
ScalarOperands ==
  {NumCst("INTEGER_CST", "SImode", o) : o \in BOOLEAN}
  \cup {NumCst("REAL_CST", m, o) : m \in {"SFmode", "XFmode"}, o \in BOOLEAN}
  \cup {NumCst("SSA_NAME", m, FALSE) : m \in {"SImode", "SFmode"}}

RoutedOperands ==
  ScalarOperands
  \cup {ComplexCst("SCmode", r, i)
          : r \in {NumCst("REAL_CST", "SFmode", o) : o \in BOOLEAN},
            i \in {NumCst("REAL_CST", "SFmode", FALSE),
                   NumCst("REAL_CST", "SFmode", TRUE),
                   NumCst("INTEGER_CST", "SImode", FALSE)}}

ResultTypes ==
  {ModeType(m) : m \in {"SImode", "SFmode", "DFmode", "SCmode", "DCmode"}}

Calls_numeric ==
  {[kind |-> "numeric", fn |-> f, type |-> T, args |-> <<a>>]
     : f \in {"sin"}, T \in ResultTypes, a \in RoutedOperands}
  \cup
  {[kind |-> "numeric", fn |-> f, type |-> T, args |-> <<a, b>>]
     : f \in {"pow", "nexttoward"}, T \in ResultTypes,
       a \in RoutedOperands, b \in RoutedOperands}
  \cup
  {[kind |-> "numeric", fn |-> f, type |-> T, args |-> <<a, b, c>>]
     : f \in {"fma"}, T \in ResultTypes,
       a \in ScalarOperands, b \in ScalarOperands, c \in ScalarOperands}

\* The router returns what the handler it called made, or NULL_TREE.
ReturnRouted(handler) ==
  /\ pc' = "done"
  /\ bk' = [invoked |-> FALSE, handler |-> handler]
  /\ \E ok \in BOOLEAN :
       out' = IF handler # NoHandler /\ ok
              THEN Scalar([code |-> "CONSTANT", by |-> handler])
              ELSE NULL_TREE
  /\ UNCHANGED <<flags, call, mpfr_flags, sequence, iterators, history>>

\* fold_const_call_1 (fn, type, arg)
FoldNumeric1 ==
  /\ pc = "call" /\ call.kind = "numeric" /\ Len(call.args) = 1
  /\ ReturnRouted(fold_const_call_1_route(call.fn, call.type, call.args[1]))

\* fold_const_call_1 (fn, type, arg0, arg1)
FoldNumeric2 ==
  /\ pc = "call" /\ call.kind = "numeric" /\ Len(call.args) = 2
  /\ ReturnRouted(fold_const_call_1_route2(call.fn, call.type, call.args[1],
                                           call.args[2]))

\* fold_const_call_1 (fn, type, arg0, arg1, arg2)
FoldNumeric3 ==
  /\ pc = "call" /\ call.kind = "numeric" /\ Len(call.args) = 3
  /\ ReturnRouted(fold_const_call_1_route3(call.fn, call.type, call.args[1],
                                           call.args[2], call.args[3]))

InitRoute ==
  /\ pc = "call"
  /\ flags = [trapping_math |-> TRUE, rounding_math |-> FALSE,
              errno_math |-> TRUE, signaling_nans |-> FALSE,
              unsafe_math_optimizations |-> FALSE]
  /\ call \in Calls_numeric
  /\ mpfr_flags = MpfrFlagsClear
  /\ bk = NoBackend
  /\ out = NotFolded
  /\ NoContainer

NextRoute ==
  \/ FoldNumeric1
  \/ FoldNumeric2
  \/ FoldNumeric3

SpecRoute == InitRoute /\ [][NextRoute]_vars

(***************************************************************************)
(* Working values: the MPFR and MPC values an evaluator initialises and    *)
(* releases.  An event is the initialisation or the release of one value.  *)
(***************************************************************************)
\* mpfr_inits2 (prec, ..., NULL) and mpc_init2, in the order of the values.
mpfr_inits2(values) ==
  [i \in DOMAIN values |-> [op |-> "init", value |-> values[i]]]

\* mpfr_clears (..., NULL) and mpc_clear, in the order of the values.
mpfr_clears(values) ==
  [i \in DOMAIN values |-> [op |-> "clear", value |-> values[i]]]

\* auto_mpfr m (prec): initialised where it is declared, released by its
\* destructor when the function returns.
auto_mpfr(value) == mpfr_inits2(<<value>>) \o mpfr_clears(<<value>>)

\* The working values of do_mpfr_arg1.
do_mpfr_arg1_values(arg, format) ==
  IF format.b # 2 \/ ~real_isfinite(arg) THEN <<>>
  ELSE auto_mpfr("m")

\* do_mpfr_sincos without mpfr_clears.
do_mpfr_sincos_values_kept(arg, format) ==
  IF format.b # 2 \/ ~real_isfinite(arg) THEN <<>>
  ELSE mpfr_inits2(<<"m", "ms", "mc">>)

\* The working values of do_mpfr_sincos.
do_mpfr_sincos_values(arg, format) ==
  IF format.b # 2 \/ ~real_isfinite(arg) THEN <<>>
  ELSE mpfr_inits2(<<"m", "ms", "mc">>) \o mpfr_clears(<<"m", "ms", "mc">>)

\* The working values of do_mpfr_arg2 (real, real).
do_mpfr_arg2_values(arg0, arg1, format) ==
  IF format.b # 2 \/ ~real_isfinite(arg0) \/ ~real_isfinite(arg1) THEN <<>>
  ELSE mpfr_inits2(<<"m0", "m1">>) \o mpfr_clears(<<"m0", "m1">>)

\* The working values of do_mpfr_arg2 (integer, real).
do_mpfr_arg2_int_values(arg1, format) ==
  IF format.b # 2 \/ ~real_isfinite(arg1) THEN <<>>
  ELSE auto_mpfr("m")

\* The working values of do_mpfr_arg3.
do_mpfr_arg3_values(arg0, arg1, arg2, format) ==
  IF \/ format.b # 2
     \/ ~real_isfinite(arg0)
     \/ ~real_isfinite(arg1)
     \/ ~real_isfinite(arg2)
  THEN <<>>
  ELSE mpfr_inits2(<<"m0", "m1", "m2">>) \o mpfr_clears(<<"m0", "m1", "m2">>)

\* The working values of do_mpc_arg1.
do_mpc_arg1_values(arg_real, arg_imag, format) ==
  IF \/ format.b # 2
     \/ ~real_isfinite(arg_real)
     \/ ~real_isfinite(arg_imag)
  THEN <<>>
  ELSE mpfr_inits2(<<"m">>) \o mpfr_clears(<<"m">>)

\* The working values of do_mpc_arg2.
do_mpc_arg2_values(arg0_real, arg0_imag, arg1_real, arg1_imag, format) ==
  IF \/ ~real_isfinite(arg0_real)
     \/ ~real_isfinite(arg0_imag)
     \/ ~real_isfinite(arg1_real)
     \/ ~real_isfinite(arg1_imag)
  THEN <<>>
  ELSE mpfr_inits2(<<"m0", "m1">>) \o mpfr_clears(<<"m0", "m1">>)

\* The values allocated after the events, from those allocated before.
RECURSIVE Allocated(_, _)
Allocated(events, before) ==
  IF events = <<>> THEN before
  ELSE Allocated(Tail(events),
                 IF Head(events).op = "init"
                 THEN before \cup {Head(events).value}
                 ELSE before \ {Head(events).value})

\* The evaluator returns: its result, the backend's flags, and the events of
\* its working values.
ReturnEvaluated(ok, re, im, r, b, events) ==
  /\ pc' = "done"
  /\ out' = [folded |-> ok, re |-> IF ok THEN re ELSE NoValue,
             im |-> IF ok THEN im ELSE NoValue, powi |-> FALSE]
  /\ bk' = IF r.invoked THEN [invoked |-> TRUE, o |-> b] ELSE NoBackend
  /\ mpfr_flags' = r.mflags
  /\ history' = [history EXCEPT
                   !.events = events,
                   !.allocated = Allocated(events, @)]
  /\ UNCHANGED <<flags, call, sequence, iterators>>

\* do_mpfr_arg1
EvaluateArg1 ==
  /\ pc = "call" /\ call.kind = "do_mpfr_arg1"
  /\ \E b \in GenericOutcomes(call.fmt) :
       \E r \in {do_mpfr_arg1(b, call.args[1], call.fmt, mpfr_flags, flags)} :
         ReturnEvaluated(r.ok, r.result, NoValue, r, b,
                         do_mpfr_arg1_values(call.args[1], call.fmt))

\* do_mpfr_sincos
EvaluateSincos ==
  /\ pc = "call" /\ call.kind = "do_mpfr_sincos"
  /\ \E b \in SinCosOutcomes(call.fmt) :
       \E r \in {do_mpfr_sincos(b, call.args[1], call.fmt, mpfr_flags,
                                flags)} :
         ReturnEvaluated(r.ok, r.result_cos, r.result_sin, r, b,
                         do_mpfr_sincos_values(call.args[1], call.fmt))

\* do_mpfr_arg2 (real, real)
EvaluateArg2 ==
  /\ pc = "call" /\ call.kind = "do_mpfr_arg2"
  /\ \E b \in GenericOutcomes(call.fmt) :
       \E r \in {do_mpfr_arg2(b, call.args[1], call.args[2], call.fmt,
                              mpfr_flags, flags)} :
         ReturnEvaluated(r.ok, r.result, NoValue, r, b,
                         do_mpfr_arg2_values(call.args[1], call.args[2],
                                             call.fmt))

\* do_mpfr_arg2 (integer, real)
EvaluateArg2Int ==
  /\ pc = "call" /\ call.kind = "do_mpfr_arg2 (int)"
  /\ \E b \in GenericOutcomes(call.fmt) :
       \E r \in {do_mpfr_arg2_int(b, call.n, call.args[1], call.fmt,
                                  mpfr_flags, flags)} :
         ReturnEvaluated(r.ok, r.result, NoValue, r, b,
                         do_mpfr_arg2_int_values(call.args[1], call.fmt))

\* do_mpfr_arg3
EvaluateArg3 ==
  /\ pc = "call" /\ call.kind = "do_mpfr_arg3"
  /\ \E b \in GenericOutcomes(call.fmt) :
       \E r \in {do_mpfr_arg3(b, call.args[1], call.args[2], call.args[3],
                              call.fmt, mpfr_flags, flags)} :
         ReturnEvaluated(r.ok, r.result, NoValue, r, b,
                         do_mpfr_arg3_values(call.args[1], call.args[2],
                                             call.args[3], call.fmt))

\* do_mpc_arg1
EvaluateMpcArg1 ==
  /\ pc = "call" /\ call.kind = "do_mpc_arg1"
  /\ \E b \in ComplexOutcomes(call.fmt) :
       \E r \in {do_mpc_arg1(b, call.args[1], call.args[2], call.fmt,
                             mpfr_flags, flags)} :
         ReturnEvaluated(r.ok, r.result_real, r.result_imag, r, b,
                         do_mpc_arg1_values(call.args[1], call.args[2],
                                            call.fmt))

\* do_mpc_arg2
EvaluateMpcArg2 ==
  /\ pc = "call" /\ call.kind = "do_mpc_arg2"
  /\ \E b \in ComplexOutcomes(call.fmt) :
       \E r \in {do_mpc_arg2(b, call.args[1], call.args[2], call.args[3],
                             call.args[4], call.fmt, mpfr_flags, flags)} :
         ReturnEvaluated(r.ok, r.result_real, r.result_imag, r, b,
                         do_mpc_arg2_values(call.args[1], call.args[2],
                                            call.args[3], call.args[4],
                                            call.fmt))

\* The calls of the evaluators: operands that are finite and not, in a
\* binary and in a decimal format.
EvaluatorFormats == {BinaryFormat, DecimalFormat}

EvaluatorOperands == {RNum(FALSE, 1, 0), RInf(FALSE)}

EvaluatorCalls ==
  {[kind |-> k, fmt |-> F, args |-> <<InFormat(u, F)>>]
     : k \in {"do_mpfr_arg1", "do_mpfr_sincos"}, F \in EvaluatorFormats,
       u \in EvaluatorOperands}
  \cup
  {[kind |-> "do_mpfr_arg2 (int)", fmt |-> F, args |-> <<InFormat(u, F)>>,
    n |-> 2]
     : F \in EvaluatorFormats, u \in EvaluatorOperands}
  \cup
  {[kind |-> k, fmt |-> F, args |-> <<InFormat(u, F), InFormat(v, F)>>]
     : k \in {"do_mpfr_arg2", "do_mpc_arg1"}, F \in EvaluatorFormats,
       u \in EvaluatorOperands, v \in EvaluatorOperands}
  \cup
  {[kind |-> "do_mpfr_arg3", fmt |-> F,
    args |-> <<InFormat(u, F), InFormat(v, F), InFormat(RNum(FALSE, 1, 0), F)>>]
     : F \in EvaluatorFormats, u \in EvaluatorOperands,
       v \in EvaluatorOperands}
  \cup
  {[kind |-> "do_mpc_arg2", fmt |-> F,
    args |-> <<InFormat(u, F), InFormat(RNum(FALSE, 1, 0), F),
               InFormat(RNum(FALSE, 1, 0), F), InFormat(v, F)>>]
     : F \in EvaluatorFormats, u \in EvaluatorOperands,
       v \in EvaluatorOperands}

\* The next call of an evaluator: the values still allocated stay so.
NextEvaluation ==
  /\ pc = "done"
  /\ pc' = "call"
  /\ call' \in EvaluatorCalls
  /\ bk' = NoBackend
  /\ out' = NotFolded
  /\ history' = [history EXCEPT !.events = <<>>]
  /\ UNCHANGED <<flags, mpfr_flags, sequence, iterators>>

InitLife ==
  /\ pc = "call"
  /\ flags = [trapping_math |-> TRUE, rounding_math |-> FALSE,
              errno_math |-> TRUE, signaling_nans |-> FALSE,
              unsafe_math_optimizations |-> FALSE]
  /\ call \in EvaluatorCalls
  /\ mpfr_flags = MpfrFlagsClear
  /\ bk = NoBackend
  /\ out = NotFolded
  /\ NoContainer

NextLife ==
  \/ EvaluateArg1
  \/ EvaluateSincos
  \/ EvaluateArg2
  \/ EvaluateArg2Int
  \/ EvaluateArg3
  \/ EvaluateMpcArg1
  \/ EvaluateMpcArg2
  \/ NextEvaluation

SpecLife == InitLife /\ [][NextLife]_vars

(***************************************************************************)
(* Properties.                                                             *)
(***************************************************************************)
Done == pc = "done"

\* The kinds of call whose result is made by do_mpfr_ckconv.
RealKinds == {"ss", "sss", "sss_int_real", "ssss", "sc", "cs"}

\* The real operands of a call.
RealArgs(c) == {c.args[i] : i \in DOMAIN c.args}

\* The functions each dispatcher hands to the generic path.
GenericPathFns ==
  GuardedFns \cup UnguardedFns \cup GenericFns2
  \cup {"pow", "jn", "yn", "fma", "fms", "fnma", "fnms", "cabs", "cexpi"}

\* A fold whose value passed the gate.
GenericFold == Done /\ out.folded /\ bk.invoked /\ ~out.powi

\* One of the rejection conditions holds of the backend value m returned
\* with outcome o.
RejectionCondition(m, o, format, fl) ==
  \/ ~mpfr_number_p(m)
  \/ o.overflow
  \/ o.underflow
  \/ (fl.rounding_math /\ o.inexact)
  \/ ~real_isfinite(real_from_mpfr(m, format))
  \/ (real_from_mpfr(m, format).cl = "rvc_zero") # mpfr_zero_p(m)

\* C1: whenever the backend's result is NaN or infinite, or the backend
\* raised overflow or underflow, or rounding-math is set and the computation
\* was inexact, or the value read back is not finite, or it is zero where the
\* backend's is not (or the reverse), no fold through the real generic path
\* succeeds.
C1_GateRejects ==
  (/\ Done /\ bk.invoked /\ call.kind \in RealKinds
   /\ \/ RejectionCondition(bk.o.m, bk.o, call.fmt, flags)
      \/ /\ call.kind = "cs"
         /\ RejectionCondition(bk.o.mc, bk.o, call.fmt, flags))
  => ~(out.folded /\ ~out.powi)

\* The backend returned a value that would pass, with the overflow flag
\* raised, and the call was not folded.
C1_Witness ==
  /\ Done /\ call.kind = "ss" /\ call.fn = "sin" /\ bk.invoked
  /\ bk.o = Outcome(MGood(call.fmt), TRUE, TRUE, FALSE)
  /\ ~flags.rounding_math
  /\ ~out.folded

\* v is the backend value m read back, and converting either to the format
\* gives the identical value.
FixedPoint(m, v, format) ==
  /\ real_identical(real_convert(format, real_from_mpfr(m, format)),
                    real_from_mpfr(m, format))
  /\ real_identical(v, real_from_mpfr(m, format))
  /\ real_identical(real_convert(format, v), v)

\* C2: a value the gate accepted is a fixed point of the conversion to the
\* target format, for a real result and for each part of a complex result.
C2_RoundTrip ==
  GenericFold =>
    CASE call.kind \in {"cc", "ccc"} ->
           /\ FixedPoint(bk.o.m, out.re, call.fmt)
           /\ FixedPoint(bk.o.mi, out.im, call.fmt)
      [] call.kind = "cs" ->
           /\ FixedPoint(bk.o.mc, out.re, call.fmt)
           /\ FixedPoint(bk.o.m, out.im, call.fmt)
      [] OTHER -> FixedPoint(bk.o.m, out.re, call.fmt)

\* A complex fold through the gate, and a real one of a denormal.
C2_Witness ==
  /\ GenericFold
  /\ \/ /\ call.kind = "cc"
        /\ bk.o.m = MDenormal(call.fmt)
        /\ out.re.cl = "rvc_normal" /\ out.im.cl = "rvc_normal"
     \/ /\ call.kind = "ss"
        /\ bk.o.m = MDenormal(call.fmt)

\* Every part of a folded constant is finite.
AllPartsFinite ==
  /\ real_isfinite(out.re)
  /\ (out.im # NoValue => real_isfinite(out.im))

\* C3 as stated: every constant produced by a fold is finite.
C3_EveryFoldFinite == (Done /\ out.folded) => AllPartsFinite

\* C3: every constant produced through the generic path, the backend called
\* and the gate passed, is finite.
C3_GenericFoldFinite == GenericFold => AllPartsFinite

\* A fold through the gate of a value at the top of the format's range.
C3_Witness ==
  /\ GenericFold /\ call.kind = "sss" /\ call.fn = "hypot"
  /\ out.re.uexp = call.fmt.emax

\* C4: the real generic path fails without calling the backend when the
\* format's radix is not 2 or a real argument is a NaN or an infinity; only
\* the integer-power fallback of pow can then still fold.
C4_RealPrecondition ==
  (/\ Done /\ call.kind \in RealKinds /\ call.fn \in GenericPathFns
   /\ \/ call.fmt.b # 2
      \/ \E a \in RealArgs(call) : ~real_isfinite(a))
  => /\ ~bk.invoked
     /\ out.folded => (call.fn = "pow" /\ out.powi)

\* A call in a decimal format with a finite argument inside the function's
\* domain, and a three-operand call with a NaN operand.
C4_Witness ==
  /\ Done /\ ~bk.invoked /\ ~out.folded
  /\ \/ /\ call.fn = "sqrt" /\ call.fmt.b = 10
        /\ call.args[1] = InFormat(RNum(FALSE, 1, 1), call.fmt)
     \/ /\ call.fn = "fma" /\ call.fmt.b = 2
        /\ call.args[3].cl = "rvc_nan"

\* C5 as stated: the complex generic path, one- and two-operand alike, fails
\* without calling the backend when the format's radix is not 2 or a part of
\* an operand is a NaN or an infinity.
C5_ComplexPrecondition ==
  (/\ Done /\ call.kind \in {"cc", "ccc"}
   /\ call.fn \in MpcFns1 \cup {"cpow"}
   /\ \/ call.fmt.b # 2
      \/ \E a \in RealArgs(call) : ~real_isfinite(a))
  => (~bk.invoked /\ ~out.folded)

\* Comparisons of the claim's wording.
real_less(a, b) == do_compare(a, b) = -1
real_less_equal(a, b) == do_compare(a, b) \in {-1, 0}
real_greater(a, b) == do_compare(a, b) = 1

\* The call's argument is outside the domain of its function.
OutsideDomain(c) ==
  \/ /\ c.kind = "ss"
     /\ \/ c.fn = "sqrt" /\ real_less(c.args[1], dconst0)
        \/ c.fn \in {"log", "log2", "log10"}
           /\ real_less_equal(c.args[1], dconst0)
        \/ c.fn = "log1p" /\ real_less_equal(c.args[1], dconstm1)
        \/ c.fn \in {"asin", "acos", "atanh"}
           /\ (real_less(c.args[1], dconstm1)
               \/ real_greater(c.args[1], dconst1))
        \/ c.fn = "acosh" /\ real_less(c.args[1], dconst1)
        \/ c.fn \in {"y0", "y1"} /\ real_less_equal(c.args[1], dconst0)
  \/ /\ c.kind = "sss_int_real" /\ c.fn = "yn"
     /\ real_less_equal(c.args[1], dconst0)

\* sqrt(-1), log(0), log(-1), asin(2), acosh(0).
DomainExamples ==
  {<<"sqrt", dconstm1>>, <<"log", dconst0>>, <<"log", dconstm1>>,
   <<"asin", RNum(FALSE, 1, 1)>>, <<"acosh", dconst0>>}

\* C6: a call whose argument is outside the domain of sqrt, log, log2, log10,
\* log1p, asin, acos, atanh, acosh, y0, y1 or yn is not folded and the backend
\* is not called, under every flag setting; so for sqrt(-1), log(0), log(-1),
\* asin(2) and acosh(0).
C6_DomainGuards ==
  /\ (Done /\ OutsideDomain(call)) => (~bk.invoked /\ ~out.folded)
  /\ (/\ Done /\ call.kind = "ss" /\ call.fmt.b = 2
      /\ <<call.fn, call.args[1]>> \in DomainExamples) => ~out.folded

\* asin(2) in a binary format was tried and not folded.
C6_Witness ==
  /\ Done /\ call.kind = "ss" /\ call.fn = "asin" /\ call.fmt = BinaryFormat
  /\ call.args[1] = RNum(FALSE, 1, 1)
  /\ ~bk.invoked /\ ~out.folded

\* The call is pow with an exponent that is an exact integer.
PowOfInteger ==
  /\ call.kind = "sss" /\ call.fn = "pow"
  /\ real_identical(call.args[2],
                    real_from_integer(VOIDmode, real_to_integer(call.args[2])))

\* The condition under which the integer power is tried.
FallbackGuard ==
  \/ real_to_integer(call.args[2]) > 0
  \/ (~flags.trapping_math /\ ~flags.errno_math)
  \/ ~real_equal(call.args[1], dconst0)

\* C7: pow folds to the integer power only when the exponent is an exact
\* integer n and n > 0, or trapping-math and errno-math are both off, or the
\* base is not zero; so zero to a negative integer power is not folded when
\* trapping-math or errno-math is on, and pow(2, 10) folds to 1024.
C7_PowFallbackGuard ==
  /\ (Done /\ call.fn = "pow" /\ out.folded /\ out.powi)
       => (PowOfInteger /\ FallbackGuard)
  /\ (/\ Done /\ PowOfInteger
      /\ call.args[1].cl = "rvc_zero"
      /\ real_to_integer(call.args[2]) < 0
      /\ (flags.trapping_math \/ flags.errno_math))
       => ~out.folded
  /\ (/\ Done /\ call.kind = "sss" /\ call.fn = "pow"
      /\ call.args[1] = RNum(FALSE, 1, 1)
      /\ call.args[2] = RNum(FALSE, 5, 1))
       => (out.folded /\ out.re = RNum(FALSE, 1, 10))

\* pow(0, -1) with trapping-math on: the backend's infinity was rejected and
\* the call was not folded.
C7_Witness ==
  /\ Done /\ call.kind = "sss" /\ call.fn = "pow"
  /\ call.args[1] = RZero(FALSE) /\ call.args[2] = RNum(TRUE, 1, 0)
  /\ flags.trapping_math
  /\ bk.invoked /\ bk.o.m = MInf(FALSE)
  /\ ~out.folded

\* The generic path of pow failed and the integer power was computed.
FallbackComputed ==
  /\ Done /\ PowOfInteger /\ FallbackGuard
  /\ ~(out.folded /\ ~out.powi)

\* What real_powi reports about the call's integer power.
PowiInexact ==
  real_powi(call.fmt, call.args[1], real_to_integer(call.args[2])).inexact

\* C8 as stated: the computed integer power is withheld only when signalling
\* NaNs are honoured, the computation was inexact and the base is a
\* signalling NaN, all three; otherwise it is returned.
C8_WithheldOnlyWhenAllThree ==
  FallbackComputed =>
    (~out.folded <=> (/\ flags.signaling_nans
                      /\ PowiInexact
                      /\ real_issignaling_nan(call.args[1])))

\* C8: unless unsafe-math-optimizations is on, the computed integer power is
\* withheld when the computation was inexact, and when signalling NaNs are
\* honoured and the base is a signalling NaN; in every other case it is the
\* folded value.
C8_WithheldWhenInexactOrSNaN ==
  FallbackComputed =>
    /\ ~out.folded <=>
         (/\ ~flags.unsafe_math_optimizations
          /\ \/ PowiInexact
             \/ (flags.signaling_nans /\ real_issignaling_nan(call.args[1])))
    /\ out.folded =>
         out.re = real_powi(call.fmt, call.args[1],
                            real_to_integer(call.args[2])).val

\* An inexact integer power of an ordinary base was withheld.
C8_Witness ==
  /\ FallbackComputed /\ ~out.folded
  /\ PowiInexact /\ call.args[1].cl = "rvc_normal"
  /\ ~flags.signaling_nans

\* The call is an overflow-checked operation on two INTEGER_CSTs without
\* TREE_OVERFLOW.
ArithCall ==
  /\ Done /\ call.kind = "arith_overflow"
  /\ integer_cst_p(call.args[1]) /\ integer_cst_p(call.args[2])

\* The infinite-precision result of the call's operation.
ExactResult ==
  Exact(subcode_of(call.fn), call.args[1].val, call.args[2].val)

\* C9: with a pair result type the operation on two non-overflowed integer
\* constants always folds, to the pair of the infinite-precision result
\* truncated to the element type and a flag that is 1 exactly when that
\* result is not representable in the element type; for 8-bit unsigned,
\* 200 + 100 gives (44, 1) and 10 + 20 gives (30, 0).
C9_OverflowPair ==
  /\ (ArithCall /\ call.type.code = "COMPLEX_TYPE") =>
       /\ out.folded
       /\ out.re = IntCst(call.type.elt, Truncate(ExactResult, call.type.elt),
                          FALSE)
       /\ out.im = IntCst(call.type.elt,
                          IF fits_to_tree_p(ExactResult, call.type.elt)
                          THEN 0 ELSE 1, FALSE)
  /\ (/\ ArithCall /\ call.fn = "ADD_OVERFLOW"
      /\ call.type = ComplexType(ByteType)
      /\ call.args[1] = IntCst(ByteType, 200, FALSE)
      /\ call.args[2] = IntCst(ByteType, 100, FALSE)) =>
       (out.re.val = 44 /\ out.im.val = 1)
  /\ (/\ ArithCall /\ call.fn = "ADD_OVERFLOW"
      /\ call.type = ComplexType(ByteType)
      /\ call.args[1] = IntCst(ByteType, 10, FALSE)
      /\ call.args[2] = IntCst(ByteType, 20, FALSE)) =>
       (out.re.val = 30 /\ out.im.val = 0)

\* 200 + 100 in 8-bit unsigned was folded to a pair with the flag set.
C9_Witness ==
  /\ ArithCall /\ call.fn = "ADD_OVERFLOW"
  /\ call.type = ComplexType(ByteType)
  /\ call.args[1].val = 200 /\ call.args[2].val = 100
  /\ out.folded /\ out.im.val = 1

\* C10: with a scalar result type the operation gives no constant when its
\* infinite-precision result does not fit the result type, and that result
\* itself when it fits; a wrapped value is never returned.
C10_OverflowTrap ==
  (ArithCall /\ call.type.code = "INTEGER_TYPE") =>
    /\ ~fits_to_tree_p(ExactResult, call.type) => ~out.folded
    /\ fits_to_tree_p(ExactResult, call.type) =>
         (out.folded /\ out.re = IntCst(call.type, ExactResult, FALSE))
    /\ out.folded => out.re.val = ExactResult

\* A signed multiplication that overflows was left unfolded.
C10_Witness ==
  /\ ArithCall /\ call.fn = "UBSAN_CHECK_MUL"
  /\ call.type.code = "INTEGER_TYPE"
  /\ ~fits_to_tree_p(ExactResult, call.type)
  /\ ~out.folded

(***************************************************************************)
(* String and memory functions.                                            *)
(***************************************************************************)
BoundedFns == {"strncmp", "strncasecmp", "memcmp", "bcmp", "memchr"}

BoundedCall == Done /\ call.kind = "str" /\ call.fn \in BoundedFns

ZeroBound == size_t_cst_p(call.args[3]) /\ tree_to_uhwi(call.args[3]) = 0

EitherSideEffect ==
  TREE_SIDE_EFFECTS(call.args[1]) \/ TREE_SIDE_EFFECTS(call.args[2])

CString(p) ==
  SubSeq(p, 1, CHOOSE i \in 1..Len(p) :
                 p[i] = 0 /\ \A j \in 1..(i - 1) : p[j] # 0)

\* a comes before b in the lexicographic order of unsigned bytes.
LexLess(a, b) ==
  \E i \in 1..Len(a) :
    /\ i <= Len(b)
    /\ a[i] < b[i]
    /\ \A j \in 1..(i - 1) : a[j] = b[j]

Canonical(a, b) == IF LexLess(a, b) THEN -1 ELSE IF LexLess(b, a) THEN 1 ELSE 0

\* What a folded strcmp, memcmp or bcmp compared.
Compared(i) ==
  IF call.fn = "strcmp" THEN CString(call.args[i].bytes)
  ELSE SubSeq(call.args[i].bytes, 1, tree_to_uhwi(call.args[3]))

\* C20: a folded strcmp, memcmp or bcmp is exactly -1 when the first operand
\* compares less, 0 when the operands compare equal and 1 when the first
\* compares greater, whatever nonzero value the host's comparison returned.
C20_CanonicalComparison ==
  (Done /\ call.kind = "str" /\ call.fn \in {"strcmp", "memcmp", "bcmp"}
        /\ out.folded) =>
    /\ out.re = IntCst(call.type, Canonical(Compared(1), Compared(2)), FALSE)
    /\ out.re.val \in {-1, 0, 1}
    /\ out.re.val = 0 <=> Compared(1) = Compared(2)

\* memcmp of a buffer starting with byte 1 against one starting with byte
\* 200 folds to -1, and strcmp of the reverse to 1.
C20_Witness ==
  /\ Done /\ call.kind = "str" /\ call.fn = "memcmp" /\ out.folded
  /\ tree_to_uhwi(call.args[3]) = MaxBytes
  /\ call.args[1].bytes[1] = 1 /\ call.args[2].bytes[1] = 200
  /\ out.re.val = -1

(***************************************************************************)
(* ldexp, scalbn and scalbln.                                              *)
(***************************************************************************)
LoadExponentCall ==
  /\ Done /\ call.kind = "sss_real_int"
  /\ call.fn \in {"ldexp", "scalbn", "scalbln"}

\* The base shifted by the adjustment, before it is cut to the format.
ShiftedResult == real_ldexp(call.args[1], call.n)

\* C12: ldexp, scalbn and scalbln are not folded when the base is a
\* signalling NaN and unsafe-math-optimizations is off, whatever the other
\* flags; nor when the shifted value is infinite; nor when cutting the
\* shifted value to the format gives a value that is not equal to it.
C12_LoadExponentRejects ==
  LoadExponentCall =>
    /\ (real_issignaling_nan(call.args[1])
        /\ ~flags.unsafe_math_optimizations) => ~out.folded
    /\ real_isinf(ShiftedResult) => ~out.folded
    /\ ~real_equal(ShiftedResult,
                   real_value_truncate(call.fmt, ShiftedResult))
         => ~out.folded

\* ldexp of a signalling NaN was left unfolded with signalling NaNs not
\* honoured.
C12_Witness ==
  /\ LoadExponentCall /\ call.fn = "ldexp"
  /\ real_issignaling_nan(call.args[1])
  /\ ~flags.signaling_nans /\ ~flags.unsafe_math_optimizations
  /\ call.n = 0
  /\ ~out.folded

\* C13: ldexp (x, n), scalbn (x, n) and scalbln (x, n) are not folded when
\* |n| >= 2 * |emax - emin| of the format, for a zero, normal, infinite or
\* NaN x alike.
C13_AdjustmentCap ==
  (LoadExponentCall
   /\ Abs(call.n) >= 2 * Abs(call.fmt.emax - call.fmt.emin))
  => ~out.folded

\* ldexp of zero by exactly the cap was left unfolded.
C13_Witness ==
  /\ LoadExponentCall /\ call.fn = "ldexp" /\ call.fmt = BinaryFormat
  /\ call.args[1] = RZero(FALSE)
  /\ call.n = 2 * (call.fmt.emax - call.fmt.emin)
  /\ ~out.folded

(***************************************************************************)
(* Rounding to an integer value, logb and significand.                     *)
(***************************************************************************)
\* C14: floor, ceil, trunc, round and roundeven of a real constant fail if
\* and only if the argument is a signalling NaN; a zero, a normal value, an
\* infinity and a quiet NaN fold in every format and under every flag
\* setting, and the backend is never called.
C14_RoundingFailsOnlyOnSNaN ==
  (Done /\ call.kind = "ss" /\ call.fn \in RoundingFns) =>
    /\ out.folded <=> ~real_issignaling_nan(call.args[1])
    /\ ~bk.invoked

\* floor of a quiet NaN was folded in the decimal format, with every flag
\* on.
C14_Witness ==
  /\ Done /\ call.kind = "ss" /\ call.fn = "floor"
  /\ call.fmt = DecimalFormat
  /\ call.args[1] = RNaN(FALSE, FALSE, 0)
  /\ flags.signaling_nans /\ flags.trapping_math /\ flags.rounding_math
  /\ flags.errno_math
  /\ out.folded /\ ~bk.invoked

\* C15: floor, ceil, trunc, round, roundeven, logb or significand of a
\* signalling NaN is either not folded or folded to a value of the same
\* class, sign, signalling bit and payload; the result is never a quiet NaN.
C15_SignalingNaNPreserved ==
  (/\ Done /\ call.kind = "ss"
   /\ call.fn \in RoundingFns \cup {"logb", "significand"}
   /\ real_issignaling_nan(call.args[1]))
  => \/ ~out.folded
     \/ /\ out.re.cl = call.args[1].cl
        /\ out.re.sign = call.args[1].sign
        /\ out.re.signalling = call.args[1].signalling
        /\ out.re.sig = call.args[1].sig

\* logb of a signalling NaN was folded to that signalling NaN.
C15_Witness ==
  /\ Done /\ call.kind = "ss" /\ call.fn = "logb"
  /\ real_issignaling_nan(call.args[1])
  /\ out.folded /\ real_issignaling_nan(out.re)

\* C16: logb returns a NaN argument unchanged and +Inf for an infinite one,
\* is never folded for a zero, returns for a normal argument of a radix-2
\* format the integer-valued real of the stored exponent less 1, which is
\* the e with 2^e <= |x| < 2^(e+1), and is not folded for a normal argument
\* of a format of another radix.
C16_Logb ==
  (Done /\ call.kind = "ss" /\ call.fn = "logb") =>
    CASE call.args[1].cl = "rvc_nan" ->
           out.folded /\ out.re = call.args[1]
      [] call.args[1].cl = "rvc_inf" ->
           out.folded /\ out.re = RInf(FALSE)
      [] call.args[1].cl = "rvc_zero" -> ~out.folded
      [] call.fmt.b = 2 ->
           /\ out.folded
           /\ out.re = real_from_integer(VOIDmode, call.args[1].uexp - 1)
           /\ 2 ^ (SigBits - 1) <= call.args[1].sig
           /\ call.args[1].sig < 2 ^ SigBits
      [] OTHER -> ~out.folded

\* logb (3) was folded to 1, and logb (0.5) to -1.
C16_Witness ==
  /\ Done /\ call.kind = "ss" /\ call.fn = "logb" /\ call.fmt.b = 2
  /\ call.args[1] = RNum(FALSE, 3, 0)
  /\ out.folded /\ out.re = dconst1

(***************************************************************************)
(* cproj.                                                                  *)
(***************************************************************************)
\* C18: cproj of a complex constant always folds: when the real or the
\* imaginary part is infinite, to +Inf with a zero imaginary part that has
\* the sign of the argument's imaginary part; otherwise to the argument
\* itself, NaN parts and signs of zero included.
C18_Cproj ==
  (Done /\ call.kind = "cc" /\ call.fn = "cproj") =>
    /\ out.folded
    /\ ~bk.invoked
    /\ IF real_isinf(call.args[1]) \/ real_isinf(call.args[2])
       THEN out.re = RInf(FALSE) /\ out.im = RZero(call.args[2].sign)
       ELSE out.re = call.args[1] /\ out.im = call.args[2]

\* cproj (1 - Inf i) was folded to +Inf - 0 i.
C18_Witness ==
  /\ Done /\ call.kind = "cc" /\ call.fn = "cproj"
  /\ call.args[1].cl = "rvc_normal" /\ call.args[2] = RInf(TRUE)
  /\ out.folded /\ out.re = RInf(FALSE) /\ out.im = RZero(TRUE)

(***************************************************************************)
(* nextafter and nexttoward.                                               *)
(***************************************************************************)
NextafterCall ==
  Done /\ call.kind = "sss" /\ call.fn \in {"nextafter", "nexttoward"}

\* The format is composite, decimal, or has no infinities or no denormals.
UnsupportedFormat(F) ==
  F.pnan < F.p \/ F.b = 10 \/ ~F.has_inf \/ ~F.has_denorm

\* The step from the first operand towards the second.
Step == real_nextafter(call.fmt, call.args[1], call.args[2])

\* C17: nextafter and nexttoward are not folded when an operand is a
\* signalling NaN or the format is composite, decimal, without infinities or
\* without denormals; after the step is computed they are not folded when it
\* overflowed or underflowed and trapping-math or errno-math is on, nor when
\* trapping-math is on, the first operand is zero and the result is not; in
\* every other case they fold, to the step's value in the format.
C17_Nextafter ==
  NextafterCall =>
    IF \/ real_issignaling_nan(call.args[1])
       \/ real_issignaling_nan(call.args[2])
       \/ UnsupportedFormat(call.fmt)
    THEN ~out.folded
    ELSE IF \/ Step.raised /\ (flags.trapping_math \/ flags.errno_math)
            \/ /\ flags.trapping_math
               /\ call.args[1].cl = "rvc_zero"
               /\ Step.r.cl # "rvc_zero"
    THEN ~out.folded
    ELSE out.folded /\ out.re = real_convert(call.fmt, Step.r)

\* nextafter (0, 1) was left unfolded under trapping-math with errno-math
\* off, the step to the smallest denormal reporting no underflow.
C17_Witness ==
  /\ NextafterCall /\ call.fmt = BinaryFormat
  /\ call.args[1] = RZero(FALSE) /\ call.args[2] = RNum(FALSE, 1, 0)
  /\ flags.trapping_math /\ ~flags.errno_math
  /\ ~Step.raised /\ Step.r = SmallestDenormalOf(BinaryFormat)
  /\ ~out.folded

(***************************************************************************)
(* clz and ctz.                                                            *)
(***************************************************************************)
CountCall ==
  /\ Done /\ call.kind \in {"bits1", "bits2"} /\ call.fn \in {"clz", "ctz"}
  /\ \A i \in DOMAIN call.args : integer_cst_p(call.args[i])

\* The bits of the first operand, most significant first.
OperandBits ==
  [i \in 1..call.args[1].type.precision |->
     (to_wide(call.args[1]) \div 2 ^ (call.args[1].type.precision - i)) % 2]

\* The number of zero bits before the first one bit, from the top (clz) or
\* from the bottom (ctz), of a nonzero operand.
ZeroCount ==
  LET n == call.args[1].type.precision
      ones == {i \in 1..n : OperandBits[i] = 1}
  IN  IF call.fn = "clz"
      THEN (CHOOSE i \in ones : \A j \in ones : i <= j) - 1
      ELSE n - (CHOOSE i \in ones : \A j \in ones : i >= j)

\* The fold gave the count v.
Counted(v) == out.folded /\ out.re = IntCst(call.type, v, FALSE)

\* C19 as stated: the one-operand form of a zero argument returns the
\* target's value at zero whenever the target defines one for the operand's
\* mode, and the operand type's bit width otherwise.
C19_ZeroInputPolicy ==
  CountCall =>
    IF call.args[1].val # 0 THEN Counted(ZeroCount)
    ELSE IF call.kind = "bits2" THEN Counted(call.args[2].val)
    ELSE IF call.at_zero.defined THEN Counted(call.at_zero.value)
    ELSE Counted(call.args[1].type.precision)

\* C19: clz and ctz of an integer constant always fold: for a nonzero
\* argument to the exact count of leading or trailing zero bits; for a zero
\* argument the two-operand form to its second operand, and the one-operand
\* form to the operand type's bit width when the type is a bit-precise
\* integer type or the target defines no value at zero for the operand's
\* mode, and to the target's value at zero otherwise.
C19_ZeroInputPolicyBitInt ==
  CountCall =>
    IF call.args[1].val # 0 THEN Counted(ZeroCount)
    ELSE IF call.kind = "bits2" THEN Counted(call.args[2].val)
    ELSE IF call.args[1].type.code # "BITINT_TYPE" /\ call.at_zero.defined
    THEN Counted(call.at_zero.value)
    ELSE Counted(call.args[1].type.precision)

\* clz of a zero of a bit-precise type was folded to the type's width on a
\* target that defines another value at zero.
C19_Witness ==
  /\ CountCall /\ call.kind = "bits1" /\ call.fn = "clz"
  /\ call.args[1].val = 0 /\ call.args[1].type.code = "BITINT_TYPE"
  /\ call.at_zero = DefinedAs(2 * MaxPrecision)
  /\ Counted(call.args[1].type.precision)

(***************************************************************************)
(* strncmp.                                                                *)
(***************************************************************************)
\* The bytes a bounded comparison looks at: the first min(bound, length)
\* bytes of the C string of operand i.
BoundedPrefix(i) ==
  LET s == CString(call.args[i].bytes)
      n == tree_to_uhwi(call.args[3])
  IN  SubSeq(s, 1, IF n < Len(s) THEN n ELSE Len(s))

\* C25: a folded strncmp of two known strings with a constant bound is
\* exactly -1, 0 or 1, by the sign of the comparison of the first
\* min(bound, length) bytes of the two strings.
C25_BoundedComparisonCanonical ==
  (/\ Done /\ call.kind = "str" /\ call.fn = "strncmp" /\ out.folded
   /\ c_getstr(call.args[1]).ok /\ c_getstr(call.args[2]).ok) =>
    /\ out.re.val \in {-1, 0, 1}
    /\ out.re = IntCst(call.type,
                       Canonical(BoundedPrefix(1), BoundedPrefix(2)), FALSE)

(***************************************************************************)
(* memcmp, bcmp and memchr: the bound against the known lengths.           *)
(***************************************************************************)
\* The operands whose bytes the function reads.
InspectedOperands == IF call.fn = "memchr" THEN {1} ELSE {1, 2}

\* The indices of the bytes a folded call hands to the host function.
InspectedBytes == 1..tree_to_uhwi(call.args[3])

NonzeroBoundCall ==
  /\ Done /\ call.kind = "str" /\ call.fn \in {"memcmp", "bcmp", "memchr"}
  /\ size_t_cst_p(call.args[3])
  /\ tree_to_uhwi(call.args[3]) # 0

\* C28: memcmp, bcmp and memchr with a nonzero constant bound n are folded
\* only if the byte representation of every operand they read is known and
\* holds at least n bytes, so every byte read lies within a representation;
\* when n exceeds a known length or a representation is unavailable the call
\* is not folded.
C28_BoundWithinKnownLength ==
  NonzeroBoundCall =>
    /\ out.folded =>
         \A i \in InspectedOperands :
           /\ getbyterep(call.args[i]).ok
           /\ InspectedBytes \subseteq DOMAIN getbyterep(call.args[i]).p
    /\ (\E i \in InspectedOperands :
          \/ ~getbyterep(call.args[i]).ok
          \/ tree_to_uhwi(call.args[3]) > getbyterep(call.args[i]).size)
         => ~out.folded

\* memchr over the whole of a two-byte representation finds its last byte.
C28_Witness ==
  /\ NonzeroBoundCall /\ call.fn = "memchr" /\ out.folded
  /\ tree_to_uhwi(call.args[3]) = getbyterep(call.args[1]).size
  /\ out.re.code = "POINTER_PLUS_EXPR"
  /\ out.re.off = getbyterep(call.args[1]).size - 1

(***************************************************************************)
(* UADDC and USUBC.                                                        *)
(***************************************************************************)
\* The call adds or subtracts three INTEGER_CSTs without TREE_OVERFLOW.
CarryCall ==
  /\ Done /\ call.kind = "carry"
  /\ \A i \in 1..3 : integer_cst_p(call.args[i])

\* a + b + c, respectively a - b - c, in infinite precision.
ChainedResult ==
  IF call.fn = "UADDC"
  THEN call.args[1].val + call.args[2].val + call.args[3].val
  ELSE call.args[1].val - call.args[2].val - call.args[3].val

CarryOut ==
  IF call.fn = "UADDC"
  THEN ChainedResult >= 2 ^ call.type.elt.precision
  ELSE ChainedResult < 0

\* C29: UADDC and USUBC on three non-overflowed constants of the unsigned
\* w-bit element type fold to the pair of (a + b + c) mod 2^w, respectively
\* (a - b - c) mod 2^w, and a carry that is 1 exactly when a + b + c >= 2^w,
\* respectively a - b - c < 0, and 0 otherwise.
C29_CarryChain ==
  CarryCall =>
    /\ out.folded
    /\ out.re = IntCst(call.type.elt,
                       ChainedResult % (2 ^ call.type.elt.precision), FALSE)
    /\ out.im = IntCst(call.type.elt, IF CarryOut THEN 1 ELSE 0, FALSE)

\* The first step of an addition wrapped and the second did not: the carry
\* is still 1.
C29_Witness ==
  /\ CarryCall /\ call.fn = "UADDC" /\ out.folded
  /\ call.args[1].val + call.args[2].val >= 2 ^ call.type.elt.precision
  /\ ((call.args[1].val + call.args[2].val) % (2 ^ call.type.elt.precision))
       + call.args[3].val < 2 ^ call.type.elt.precision
  /\ call.args[3].val > 0
  /\ out.im.val = 1

(***************************************************************************)
(* Versions of a sequence and its iterators.                               *)
(***************************************************************************)
\* C30: the version of a sequence, 1 at construction, is never 0 after any
\* number of _M_invalidate_all calls, also after the counter has wrapped; so
\* an iterator that _M_invalidate set to version 0 never has the version of
\* its sequence, and stays singular, whatever calls of _M_invalidate_all
\* follow.
C30_VersionNeverZero ==
  /\ sequence._M_version \in 1..UINT_MAX
  /\ \A i \in history.invalidated :
       /\ iterators[i]._M_version = 0
       /\ iterators[i]._M_version # sequence._M_version
       /\ _M_singular(iterators[i], sequence)

\* The counter has wrapped to 1 while one iterator was invalidated and the
\* other still holds the largest version.
C30_Witness ==
  /\ history.wrapped
  /\ sequence._M_version = 1
  /\ "i1" \in history.invalidated
  /\ iterators["i2"]._M_version = UINT_MAX

(***************************************************************************)
(* Vector reductions.                                                      *)
(***************************************************************************)
ReductionCall == Done /\ call.kind \in {"reduc", "fold_left"}

\* The vector operand, and the values combined: the lanes, after the
\* initial value for FOLD_LEFT_PLUS.
VectorOperand == call.args[Len(call.args)]

Combined ==
  IF call.kind = "reduc" THEN VectorOperand.elts
  ELSE <<call.args[1]>> \o VectorOperand.elts

\* (((s[1] op s[2]) op s[3]) ... op s[n]), or no tree when a step gives none.
RECURSIVE InLaneOrder(_, _)
InLaneOrder(code, s) ==
  LET left == InLaneOrder(code, SubSeq(s, 1, Len(s) - 1))
  IN  IF Len(s) = 1 THEN s[1]
      ELSE IF left = NullTree THEN NullTree
      ELSE const_binop(code, call.type, left, s[Len(s)], flags)

\* C21: a reduction over a vector constant of n lanes is
\* ((e0 op e1) op e2) ... op e(n-1), and FOLD_LEFT_PLUS is
\* ((init op e0) op e1) ... op e(n-1), combined strictly in lane order; the
\* call is not folded when the lane count is not a compile-time constant,
\* when the operand is not a vector constant, or when a step gives no
\* constant.
C21_LaneOrder ==
  ReductionCall =>
    IF VectorOperand.code # "VECTOR_CST" \/ ~VectorOperand.constant_nelts
    THEN ~out.folded
    ELSE IF InLaneOrder(reduction_code(call.fn), Combined) = NullTree
    THEN ~out.folded
    ELSE out = Scalar(InLaneOrder(reduction_code(call.fn), Combined))

\* 1 + 1/8 + 1/8 summed in lane order in a format of three bits is 1: each
\* step rounds back to 1, where 1 + (1/8 + 1/8) would be 5/4.
C21_Witness ==
  /\ ReductionCall /\ call.fn = "REDUC_PLUS" /\ out.folded
  /\ call.type = BinaryFormat
  /\ VectorOperand.elts = <<RealCst(RNum(FALSE, 1, 0)),
                            RealCst(RNum(FALSE, 1, -3)),
                            RealCst(RNum(FALSE, 1, -3))>>
  /\ out.re = RealCst(RNum(FALSE, 1, 0))

(***************************************************************************)
(* cexpi.                                                                  *)
(***************************************************************************)
CexpiCall == Done /\ call.kind = "cs" /\ call.fn = "cexpi"

\* The gate rejects the sine, respectively the cosine, the backend returned.
SineRejected == RejectionCondition(bk.o.m, bk.o, call.fmt, flags)
CosineRejected == RejectionCondition(bk.o.mc, bk.o, call.fmt, flags)

\* C26: cexpi folds only if the backend was invoked and both the sine and
\* the cosine pass the gate; the folded constant has the cosine as its real
\* part and the sine as its imaginary part; and when either is rejected, or
\* the backend is not invoked, no part of a constant is built.
C26_NoPartialCexpi ==
  CexpiCall =>
    /\ out.folded =>
         /\ bk.invoked /\ ~SineRejected /\ ~CosineRejected
         /\ real_identical(out.re, real_from_mpfr(bk.o.mc, call.fmt))
         /\ real_identical(out.im, real_from_mpfr(bk.o.m, call.fmt))
    /\ (~bk.invoked \/ SineRejected \/ CosineRejected) => out = NotFolded

\* The sine passed the gate and the cosine did not: nothing was folded.
C26_Witness ==
  /\ CexpiCall /\ bk.invoked
  /\ ~SineRejected /\ CosineRejected
  /\ out = NotFolded

(***************************************************************************)
(* Function identifiers a handler does not list.                           *)
(***************************************************************************)
\* fold_const_call_cc was reached with an identifier that is none of its
\* case labels (conj in the model).
UnrecognizedByHandler ==
  call.kind = "cc" /\ call.fn \notin MpcFns1 \cup {"cproj"}

\* C24: a family handler reached with a function identifier it does not
\* recognize stops on a programming-error assertion; the fold of such a call
\* never ends with the ordinary outcome "not folded".
C24_UnrecognizedIsAssertion ==
  UnrecognizedByHandler => ~(Done /\ out = NotFolded)

(***************************************************************************)
(* History independence.                                                   *)
(***************************************************************************)
\* What the backend may return for the call.
BackendOutcomes ==
  CASE call.kind = "cs" -> SinCosOutcomes(call.fmt)
    [] call.kind = "cc" -> ComplexOutcomes(call.fmt)
    [] OTHER -> GenericOutcomes(call.fmt)

\* The fold of the call in a compiler that has folded nothing before, the
\* backend returning b.
FreshFold(b) ==
  CASE call.kind = "cs" ->
         fold_const_call_cs(b, call.fn, call.args[1], call.fmt,
                            MpfrFlagsClear, flags)
    [] call.kind = "cc" ->
         fold_const_call_cc(b, call.fn, call.args[1], call.args[2], call.fmt,
                            MpfrFlagsClear, flags)
    [] OTHER ->
         fold_const_call_ss(b, call.fn, call.args[1], call.fmt,
                            MpfrFlagsClear, flags)

\* The outcome is that of the fresh fold r.
SameOutcome(r) ==
  /\ out.folded = r.ok
  /\ bk.invoked = r.invoked
  /\ r.ok => IF call.kind \in {"cs", "cc"}
             THEN out.re = r.result_real /\ out.im = r.result_imag
             ELSE out.re = r.result

\* C23: in a sequence of folds the outcome of a call is the outcome the same
\* call, the same flags and the same answer of the backend have in a
\* compiler that has folded nothing before; the backend's flags after an
\* invocation are those that invocation raised, whatever earlier calls left.
C23_HistoryIndependent ==
  Done =>
    /\ \E b \in BackendOutcomes :
         /\ bk.invoked => b = bk.o
         /\ SameOutcome(FreshFold(b))
    /\ bk.invoked => mpfr_flags = mpfr_raise(MpfrFlagsClear, bk.o)

\* A call was folded through the gate although an earlier call had left the
\* backend's overflow flag raised.
C23_Witness ==
  /\ Done /\ out.folded /\ bk.invoked
  /\ history.stale.overflow
  /\ ~mpfr_flags.overflow

(***************************************************************************)
(* Numeric routing.                                                        *)
(***************************************************************************)
RoutedCall == Done /\ call.kind = "numeric"

\* The operand is an overflowed integer or real constant, a complex
\* constant with a part that is overflowed or no real constant, or no
\* constant at all.
NotFoldable(t) ==
  CASE t.code \in {"INTEGER_CST", "REAL_CST"} -> t.overflow
    [] t.code = "COMPLEX_CST" ->
         \E p \in {t.real, t.imag} : p.code # "REAL_CST" \/ p.overflow
    [] OTHER -> TRUE

\* A real operand with a result that is neither of its own mode, nor of the
\* complex mode over it, nor of an integer type; an integer operand with a
\* result that is no integer; a complex operand with a result that is
\* neither of its mode nor of the mode of its parts.
UnlistedShape ==
  /\ Len(call.args) = 1
  /\ LET arg_mode == call.args[1].type.mode
         mode == call.type.mode
     IN  \/ /\ call.args[1].code = "REAL_CST"
            /\ mode \notin {arg_mode, "SImode"}
            /\ ~(mode \in ComplexModes /\ GET_MODE_INNER(mode) = arg_mode)
         \/ call.args[1].code = "INTEGER_CST" /\ mode # "SImode"
         \/ /\ call.args[1].code = "COMPLEX_CST"
            /\ mode \notin {arg_mode, GET_MODE_INNER(arg_mode)}

\* C22: when an operand of a numeric call is an overflowed integer or real
\* constant, a complex constant with an overflowed or non-real part, or no
\* constant, the call is not folded and no family handler is called; the
\* same holds of a combination of operand and result shapes the router does
\* not list.
C22_RoutingRejects ==
  RoutedCall =>
    /\ (\E i \in DOMAIN call.args : NotFoldable(call.args[i])) =>
         (out = NotFolded /\ bk.handler = NoHandler)
    /\ UnlistedShape => (out = NotFolded /\ bk.handler = NoHandler)

\* A real constant with TREE_OVERFLOW set, its mode that of the result, was
\* handed to no handler.
C22_Witness ==
  /\ RoutedCall /\ Len(call.args) = 2
  /\ call.args[1] = NumCst("REAL_CST", "SFmode", FALSE)
  /\ call.args[2] = NumCst("REAL_CST", "SFmode", TRUE)
  /\ call.type = ModeType("SFmode")
  /\ out = NotFolded /\ bk.handler = NoHandler

(***************************************************************************)
(* Working-value lifetime.                                                 *)
(***************************************************************************)
EvaluatorCall == Done /\ call.kind \in {c.kind : c \in EvaluatorCalls}

\* The positions of the events of the kind on the value.
EventsOf(op, value) ==
  {i \in DOMAIN history.events :
     history.events[i].op = op /\ history.events[i].value = value}

\* The value is initialised once and released once, afterwards.
ReleasedOnce(value) ==
  /\ Cardinality(EventsOf("init", value)) = 1
  /\ Cardinality(EventsOf("clear", value)) = 1
  /\ \A i \in EventsOf("init", value) :
       \A j \in EventsOf("clear", value) : i < j

\* The evaluator's precondition on the radix and on the operands.
PreconditionRejected ==
  \/ call.kind # "do_mpc_arg2" /\ call.fmt.b # 2
  \/ \E i \in DOMAIN call.args : ~real_isfinite(call.args[i])

\* C27: when an evaluator has returned, every working value it initialised
\* or released was initialised once and then released once, whether the
\* result passed the gate or not; a call its precondition rejects has
\* initialised none; and after any sequence of calls no working value is
\* allocated.
C27_WorkingValuesReleased ==
  /\ history.allocated = {}
  /\ EvaluatorCall =>
       /\ \A i \in DOMAIN history.events :
            ReleasedOnce(history.events[i].value)
       /\ PreconditionRejected => history.events = <<>>
       /\ ~PreconditionRejected => history.events # <<>>

\* The sine and cosine evaluator was rejected by the gate, and its three
\* values were released.
C27_Witness ==
  /\ EvaluatorCall /\ call.kind = "do_mpfr_sincos"
  /\ bk.invoked /\ ~out.folded
  /\ mpfr_flags.overflow
  /\ Len(history.events) = 6
  /\ history.allocated = {}

====
